---- MODULE Spec2Model ----
(***************************************************************************)
(* LogSentry: parser chain, rule engine and analyzer.                      *)
(*                                                                         *)
(* A raw log line is represented by what the code's regular expressions    *)
(* and string tests observe on it: which parsers' can_parse accept it,     *)
(* which parsers' parse produce an entry, what source IP and timestamp the *)
(* committing parser extracts, and the findall result of every rule        *)
(* pattern (number of matches, length of str(matches[0]), the IPv4         *)
(* substrings of str(matches[0])).                                         *)
(*                                                                         *)
(* Optional[X] is a sequence of length 0 (None) or 1.  A float is carried   *)
(* exactly, with the rounding of every operation the code applies to it.   *)
(***************************************************************************)
EXTENDS Integers, Sequences, FiniteSets, TLC

VARIABLES
    analyzer,   \* the LogAnalyzer object (rule_engine, parser_manager, chunk_size)
    fs,         \* the file system: directory listing of log files, written outputs
    call,       \* the API call made last: [op, args]
    result      \* what that call returned or raised

vars == <<analyzer, fs, call, result>>

-----------------------------------------------------------------------------
(* Bounds of the explored inputs *)

MaxLines == 3        \* lines per file or text
MaxChunkSize == 2    \* largest small chunk_size tried besides the default
MaxMatches == 2      \* findall matches of one pattern on one line
MaxMatchLen == 6     \* length of str(matches[0])
MaxDetections == 2   \* length of a detection list handed to a pure function
MaxSuspicious == 2   \* suspicious IPs in a hand-built ip_analysis
MaxFiles == 3        \* files in a scanned directory
MaxCustomRules == 2  \* custom rules handed to the constructor
MaxCustomParsers == 2 \* parsers registered with add_parser

-----------------------------------------------------------------------------
(* Generic helpers *)

None == <<>>
Some(x) == <<x>>

Min(a, b) == IF a <= b THEN a ELSE b
Max(a, b) == IF a >= b THEN a ELSE b

RECURSIVE Flatten(_)
Flatten(ss) == IF ss = <<>> THEN <<>> ELSE Head(ss) \o Flatten(Tail(ss))

RECURSIVE SeqSum(_)
SeqSum(s) == IF s = <<>> THEN 0 ELSE Head(s) + SeqSum(Tail(s))

Range(s) == {s[i] : i \in DOMAIN s}

\* dict.update: the entries of e added to, or replacing, those of d
update(d, e) ==
    [k \in DOMAIN d \cup DOMAIN e |-> IF k \in DOMAIN e THEN e[k] ELSE d[k]]

Count(s, x) == Cardinality({i \in DOMAIN s : s[i] = x})

SeqsUpTo(S, n) == UNION {[1..k -> S] : k \in 0..n}

-----------------------------------------------------------------------------
(* Python floats: IEEE-754 binary64, round to nearest, ties to even *)

\* A non-negative float x below 2^13 is carried exactly, as the natural
\* number x * 2^64 written in four limbs of 24 bits, least significant first.
LimbBase == 2^24

\* the limbs after carries (or borrows) are propagated upwards
carry(a) ==
    LET c2 == a[2] + a[1] \div LimbBase
        c3 == a[3] + c2 \div LimbBase
        c4 == a[4] + c3 \div LimbBase
    IN <<a[1] % LimbBase, c2 % LimbBase, c3 % LimbBase, c4>>

\* the bit length of a limb
RECURSIVE bits(_)
bits(x) ==
    IF x >= 4096 THEN 12 + bits(x \div 4096)
    ELSE IF x < 64
         THEN IF x < 8 THEN (IF x < 2 THEN x ELSE IF x < 4 THEN 2 ELSE 3)
              ELSE (IF x < 16 THEN 4 ELSE IF x < 32 THEN 5 ELSE 6)
         ELSE IF x < 512 THEN (IF x < 128 THEN 7 ELSE IF x < 256 THEN 8 ELSE 9)
              ELSE (IF x < 1024 THEN 10 ELSE IF x < 2048 THEN 11 ELSE 12)

bit_length(a) ==
    IF a[4] > 0 THEN 72 + bits(a[4])
    ELSE IF a[3] > 0 THEN 48 + bits(a[3])
    ELSE IF a[2] > 0 THEN 24 + bits(a[2])
    ELSE bits(a[1])

\* a with the bits below ulp rounded away, low being their value
round_low(a, inexact, ulp, low) ==
    LET half == ulp \div 2
        odd == IF ulp = LimbBase THEN a[2] % 2 = 1
               ELSE (a[1] \div ulp) % 2 = 1
    IN IF low > half \/ (low = half /\ (inexact \/ odd))
       THEN carry(<<a[1] - low + ulp, a[2], a[3], a[4]>>)
       ELSE <<a[1] - low, a[2], a[3], a[4]>>

round_at(a, inexact, ulp) == round_low(a, inexact, ulp, a[1] % ulp)

\* the float nearest to the exact value a (plus a positive remainder below
\* one unit when inexact): 53 significant bits are kept, ties go to even
round_to_float(a, inexact) ==
    IF a[4] = 0 /\ a[3] < 2^5 THEN a
    ELSE round_at(a, inexact, 2^(bit_length(a) - 53))

\* float(k) of a small int k
float(k) == carry(<<0, 0, k * 2^16, 0>>)

\* int(x): truncation
int(x) == x[4] * 2^8 + x[3] \div 2^16

\* x + y
float_add(x, y) ==
    round_to_float(carry(<<x[1] + y[1], x[2] + y[2], x[3] + y[3], x[4] + y[4]>>), FALSE)

\* x - y, for x >= y
float_sub(x, y) ==
    round_to_float(carry(<<x[1] - y[1], x[2] - y[2], x[3] - y[3], x[4] - y[4]>>), FALSE)

\* x * k for an int 0 <= k < 128
float_mul(x, k) ==
    round_to_float(carry(<<x[1] * k, x[2] * k, x[3] * k, x[4] * k>>), FALSE)

\* x / k for an int 0 < k < 128
float_div(x, k) ==
    LET q4 == x[4] \div k
        r4 == x[4] % k
        q3 == (r4 * LimbBase + x[3]) \div k
        r3 == (r4 * LimbBase + x[3]) % k
        q2 == (r3 * LimbBase + x[2]) \div k
        r2 == (r3 * LimbBase + x[2]) % k
        q1 == (r2 * LimbBase + x[1]) \div k
        r1 == (r2 * LimbBase + x[1]) % k
    IN round_to_float(<<q1, q2, q3, q4>>, r1 # 0)

\* x <= y
float_le(x, y) ==
    \/ x[4] < y[4]
    \/ x[4] = y[4] /\ \/ x[3] < y[3]
                      \/ x[3] = y[3] /\ \/ x[2] < y[2]
                                        \/ x[2] = y[2] /\ x[1] <= y[1]

\* min(x, y) and max(x, y) of two floats
float_min(x, y) == IF float_le(y, x) THEN y ELSE x
float_max(x, y) == IF float_le(x, y) THEN y ELSE x

\* the floats the literals 0.1, 0.2, ... 1.0 denote: the nearest to t / 10,
\* float_div(float(t), 10), written out in limbs
literals ==
    << <<10066432, 10066329, 6553, 0>>,
       <<3355648, 3355443, 13107, 0>>,
       <<13421568, 13421772, 19660, 0>>,
       <<6711296, 6710886, 26214, 0>>,
       <<0, 0, 32768, 0>>,
       <<10065920, 10066329, 39321, 0>>,
       <<3354624, 3355443, 45875, 0>>,
       <<13422592, 13421772, 52428, 0>>,
       <<6711296, 6710886, 58982, 0>>,
       <<0, 0, 65536, 0>> >>

\* the float a literal of t tenths denotes
literal(t) == IF t = 0 THEN float(0) ELSE literals[t]

\* f"{x:.2f}", in hundredths: the exact value of x is rounded, ties to even
format_2f(x) ==
    LET exact == carry(<<x[1] * 100, x[2] * 100, x[3] * 100, x[4] * 100>>)
        whole == int(exact)
        rest == exact[3] % 2^16
        tie == rest = 2^15 /\ exact[2] = 0 /\ exact[1] = 0
    IN IF rest >= 2^15 /\ (~tie \/ whole % 2 = 1) THEN whole + 1 ELSE whole

\* the number of tenths a float is nearest to
tenths(x) == int(float_add(float_mul(x, 10), literal(5)))

-----------------------------------------------------------------------------
(* rules.py: Severity, DetectionRule, the built-in catalog *)

Severity == {"LOW", "MEDIUM", "HIGH", "CRITICAL"}

SeverityValue(s) ==
    CASE s = "LOW" -> "low"
      [] s = "MEDIUM" -> "medium"
      [] s = "HIGH" -> "high"
      [] s = "CRITICAL" -> "critical"

DetectionRule(name, severity, category) ==
    [name |-> name, severity |-> severity, pattern |-> name, category |-> category]

_initialize_rules ==
    << DetectionRule("failed_login_attempt", "MEDIUM", "authentication"),
       DetectionRule("multiple_failed_logins", "HIGH", "authentication"),
       DetectionRule("privileged_escalation", "HIGH", "privilege_escalation"),
       DetectionRule("sql_injection", "HIGH", "web_attack"),
       DetectionRule("xss_attempt", "HIGH", "web_attack"),
       DetectionRule("lfi_rfi_attempt", "HIGH", "web_attack"),
       DetectionRule("command_injection", "CRITICAL", "web_attack"),
       DetectionRule("port_scan", "MEDIUM", "network_attack"),
       DetectionRule("suspicious_user_agent", "MEDIUM", "network_attack"),
       DetectionRule("suspicious_file_access", "HIGH", "file_access"),
       DetectionRule("crypto_mining", "MEDIUM", "malware"),
       DetectionRule("reverse_shell", "CRITICAL", "malware"),
       DetectionRule("data_exfiltration", "HIGH", "data_exfiltration"),
       DetectionRule("large_data_transfer", "MEDIUM", "data_exfiltration"),
       DetectionRule("http_error_spike", "LOW", "web_error"),
       DetectionRule("directory_traversal", "HIGH", "web_attack"),
       DetectionRule("dns_tunneling", "HIGH", "network_attack"),
       DetectionRule("credential_stuffing", "HIGH", "authentication") >>

\* re.compile(rule.pattern, rule.regex_flags) raises re.error on these patterns
BadPatterns == {"("}

\* RuleEngine._compile_patterns: every compilable rule's pattern is stored
\* under the rule's name; the cache is never cleared, a later rule of the
\* same name overwrites an earlier one, a failing rule leaves the cache as is.
RECURSIVE _compile_patterns(_, _)
_compile_patterns(rules, compiled_patterns) ==
    IF rules = <<>> THEN compiled_patterns
    ELSE LET rule == Head(rules)
             next == IF rule.pattern \in BadPatterns
                     THEN compiled_patterns
                     ELSE [n \in DOMAIN compiled_patterns \cup {rule.name} |->
                             IF n = rule.name THEN rule.pattern
                             ELSE compiled_patterns[n]]
         IN _compile_patterns(Tail(rules), next)

\* RuleEngine.__init__ with rules=None
RuleEngine ==
    [rules |-> _initialize_rules,
     compiled_patterns |-> _compile_patterns(_initialize_rules, <<>>)]

-----------------------------------------------------------------------------
(* rules.py: matching and confidence *)

NoMatch == [n |-> 0, len |-> 0, ips |-> <<>>]

\* pattern.findall(line): n matches, str(matches[0]) has length len and
\* holds the IPv4 substrings ips
findall(pattern, line) ==
    IF pattern \in DOMAIN line.findall THEN line.findall[pattern] ELSE NoMatch

\* severity_boost that gives every severity above LOW the same 0.1
severity_boost_flat(severity) ==
    IF severity = "LOW" THEN literal(0) ELSE literal(1)

\* the severity_boost dict of _calculate_confidence
severity_boost(severity) ==
    CASE severity = "LOW" -> literal(0)
      [] severity = "MEDIUM" -> literal(1)
      [] severity = "HIGH" -> literal(2)
      [] severity = "CRITICAL" -> literal(3)

\* _calculate_confidence without the final clamp
_calculate_confidence_unclamped(rule, matches) ==
    LET c0 == float_add(literal(7), severity_boost(rule.severity))
        c1 == IF matches.n > 1 THEN float_add(c0, literal(1)) ELSE c0
    IN IF matches.n > 0 /\ matches.len < 5 THEN float_sub(c1, literal(1)) ELSE c1

\* RuleEngine._calculate_confidence
_calculate_confidence(rule, matches) ==
    LET base_confidence == literal(7)
        c0 == float_add(base_confidence, severity_boost(rule.severity))
        c1 == IF matches.n > 1 THEN float_add(c0, literal(1)) ELSE c0
        c2 == IF matches.n > 0 /\ matches.len < 5 THEN float_sub(c1, literal(1)) ELSE c1
    IN float_min(literal(10), float_max(literal(1), c2))

\* analyze_line that emits a Detection for every match occurrence
analyze_line_per_match(engine, line, line_number, timestamp) ==
    Flatten([r \in DOMAIN engine.rules |->
        LET rule == engine.rules[r]
            matches == IF rule.name \in DOMAIN engine.compiled_patterns
                       THEN findall(engine.compiled_patterns[rule.name], line)
                       ELSE NoMatch
        IN [k \in 1..matches.n |->
              [rule_name |-> rule.name,
               severity |-> rule.severity,
               matched_text |-> [len |-> matches.len, ips |-> matches.ips],
               line_number |-> line_number,
               timestamp |-> timestamp,
               category |-> rule.category,
               confidence |-> _calculate_confidence(rule, matches)]]])

\* RuleEngine.analyze_line: one Detection per rule, in catalog order, whose
\* name has a compiled pattern that matches the line
analyze_line(engine, line, line_number, timestamp) ==
    LET Fires(rule) ==
            /\ rule.name \in DOMAIN engine.compiled_patterns
            /\ findall(engine.compiled_patterns[rule.name], line).n > 0
        fired == SelectSeq(engine.rules, Fires)
    IN [i \in 1..Len(fired) |->
          LET rule == fired[i]
              matches == findall(engine.compiled_patterns[rule.name], line)
          IN [rule_name |-> rule.name,
              severity |-> rule.severity,
              matched_text |-> [len |-> matches.len, ips |-> matches.ips],
              line_number |-> line_number,
              timestamp |-> timestamp,
              category |-> rule.category,
              confidence |-> _calculate_confidence(rule, matches)]]

\* analyze_log_chunk that hands each line's timestamp to analyze_line
analyze_log_chunk_stamped(engine, lines, start_line) ==
    Flatten([i \in 1..Len(lines) |->
               analyze_line(engine, lines[i], start_line + (i - 1), lines[i].timestamp)])

\* RuleEngine.analyze_log_chunk
analyze_log_chunk(engine, lines, start_line) ==
    Flatten([i \in 1..Len(lines) |->
               analyze_line(engine, lines[i], start_line + (i - 1), None)])

\* sum(xs) of floats: the additions are made left to right, from the int 0
RECURSIVE float_sum(_, _)
float_sum(xs, start) ==
    IF xs = <<>> THEN start ELSE float_sum(Tail(xs), float_add(start, Head(xs)))

\* RuleEngine.get_detection_summary
get_detection_summary(detections) ==
    IF detections = <<>>
    THEN [total |-> 0, by_severity |-> <<>>, by_category |-> <<>>]
    ELSE [total |-> Len(detections),
          by_severity |->
              [k \in {SeverityValue(d.severity) : d \in Range(detections)} |->
                 Cardinality({i \in DOMAIN detections :
                                SeverityValue(detections[i].severity) = k})],
          by_category |->
              [k \in {d.category : d \in Range(detections)} |->
                 Cardinality({i \in DOMAIN detections : detections[i].category = k})],
          by_rule |->
              [k \in {d.rule_name : d \in Range(detections)} |->
                 Cardinality({i \in DOMAIN detections : detections[i].rule_name = k})],
          confidence_avg |->
              float_div(float_sum([i \in DOMAIN detections |-> detections[i].confidence],
                                  float(0)),
                        Len(detections))]

-----------------------------------------------------------------------------
(* parsers.py: the parser chain *)

\* LogParserManager.__init__
LogParserManager ==
    [parsers |-> <<"apache_access", "syslog", "windows_event", "firewall",
                   "json", "generic">>]

\* <Parser>.can_parse: GenericLogParser accepts any line
can_parse(parser, line) ==
    IF parser = "generic" THEN TRUE ELSE parser \in line.can_parse

\* <Parser>.parse: an entry tagged with the parser's name, or None
parse(parser, line, line_number) ==
    IF parser \in line.parse_ok
    THEN Some([timestamp |-> line.timestamp,
               source_ip |-> line.source_ip,
               log_type |-> parser,
               line_number |-> line_number])
    ELSE None

\* parse_line without the early return: every accepting parser adds its entry
parse_line_every(manager, line, line_number) ==
    Flatten([i \in DOMAIN manager.parsers |->
               IF can_parse(manager.parsers[i], line)
               THEN parse(manager.parsers[i], line, line_number)
               ELSE None])

\* parse_line that goes on to the next accepting parser when parse fails
parse_line_retrying(manager, line, line_number) ==
    LET producing == {i \in DOMAIN manager.parsers :
                        /\ can_parse(manager.parsers[i], line)
                        /\ parse(manager.parsers[i], line, line_number) # None}
    IN IF producing = {} THEN None
       ELSE LET first == CHOOSE i \in producing : \A j \in producing : i <= j
            IN parse(manager.parsers[first], line, line_number)

\* LogParserManager.parse_line: the first parser that accepts the line parses it
parse_line(manager, line, line_number) ==
    LET accepting == {i \in DOMAIN manager.parsers : can_parse(manager.parsers[i], line)}
    IN IF accepting = {} THEN None
       ELSE LET first == CHOOSE i \in accepting : \A j \in accepting : i <= j
            IN parse(manager.parsers[first], line, line_number)

\* list.insert(-1, x): before the last element, or into an empty list
insert_before_last(list, x) ==
    IF list = <<>> THEN <<x>>
    ELSE Append(SubSeq(list, 1, Len(list) - 1), x) \o <<list[Len(list)]>>

\* add_parser that appends the parser at the end of the list
add_parser_appending(manager, parser) ==
    [manager EXCEPT !.parsers = Append(@, parser)]

\* LogParserManager.add_parser
add_parser(manager, parser) ==
    [manager EXCEPT !.parsers = insert_before_last(@, parser)]

\* LogParserManager.parse_lines
parse_lines(manager, lines, start_line) ==
    Flatten([i \in 1..Len(lines) |-> parse_line(manager, lines[i], start_line + (i - 1))])

\* LogParserManager.get_parser_stats
get_parser_stats(entries) ==
    [t \in {e.log_type : e \in Range(entries)} |->
       Cardinality({i \in DOMAIN entries : entries[i].log_type = t})]

-----------------------------------------------------------------------------
(* utils.py: IP helpers, on the addresses the inputs use *)

PrivateIP == "192.168.1.1"
PublicIP == "8.8.8.8"
OtherPublicIP == "1.1.1.1"

\* the hosts of one private network, and four digit groups that are no address
HostIPs ==
    <<"10.0.0.1", "10.0.0.2", "10.0.0.3", "10.0.0.4", "10.0.0.5",
      "10.0.0.6", "10.0.0.7", "10.0.0.8", "10.0.0.9", "10.0.0.10",
      "10.0.0.11", "10.0.0.12", "10.0.0.13", "10.0.0.14", "10.0.0.15",
      "10.0.0.16", "10.0.0.17", "10.0.0.18", "10.0.0.19", "10.0.0.20",
      "10.0.0.21", "10.0.0.22">>
InvalidIP == "999.9.9.9"

\* utils.is_valid_ip
is_valid_ip(ip_string) ==
    ip_string \in {PrivateIP, PublicIP, OtherPublicIP} \/ ip_string \in Range(HostIPs)

\* utils.is_private_ip
is_private_ip(ip_string) == ip_string = PrivateIP \/ ip_string \in Range(HostIPs)

\* utils.extract_ips_from_text, applied to a Detection's matched_text
extract_ips_from_text(text) == text.ips

-----------------------------------------------------------------------------
(* analyzer.py: IP analysis *)

\* first loop of _analyze_ips: ip_stats in insertion order
RECURSIVE collect_ip_stats(_, _)
collect_ip_stats(log_entries, ip_stats) ==
    IF log_entries = <<>> THEN ip_stats
    ELSE LET entry == Head(log_entries)
             rest == Tail(log_entries)
         IN IF entry.source_ip # None /\ is_valid_ip(entry.source_ip[1])
            THEN LET ip == entry.source_ip[1]
                     known == {i \in DOMAIN ip_stats : ip_stats[i].ip = ip}
                     old == IF known = {}
                            THEN [ip |-> ip, count |-> 0, first_seen |-> None,
                                  last_seen |-> None, detections |-> <<>>,
                                  is_private |-> FALSE]
                            ELSE ip_stats[CHOOSE i \in known : TRUE]
                     ts == entry.timestamp
                     new == [old EXCEPT
                               !.count = @ + 1,
                               !.is_private = is_private_ip(ip),
                               !.first_seen =
                                   IF ts # None /\ (@ = None \/ ts[1] < @[1]) THEN ts ELSE @,
                               !.last_seen =
                                   IF ts # None /\ (@ = None \/ ts[1] > @[1]) THEN ts ELSE @]
                     stats == IF known = {} THEN Append(ip_stats, new)
                              ELSE [i \in DOMAIN ip_stats |->
                                      IF i \in known THEN new ELSE ip_stats[i]]
                 IN collect_ip_stats(rest, stats)
            ELSE collect_ip_stats(rest, ip_stats)

\* second loop of _analyze_ips: every IP occurrence in a detection's
\* matched_text appends the detection to that IP's record
associate_detections(ip_stats, detections) ==
    [i \in DOMAIN ip_stats |->
       [ip_stats[i] EXCEPT !.detections =
          Flatten([d \in DOMAIN detections |->
             LET ips == extract_ips_from_text(detections[d].matched_text)
             IN Flatten([k \in DOMAIN ips |->
                           IF ips[k] = ip_stats[i].ip THEN <<detections[d]>> ELSE <<>>])])]]

\* sorted(..., key=count, reverse=True): stable, descending
RECURSIVE sorted_by_count(_)
sorted_by_count(s) ==
    IF s = <<>> THEN <<>>
    ELSE LET top == CHOOSE i \in DOMAIN s :
                       /\ \A j \in DOMAIN s : s[j].count <= s[i].count
                       /\ \A j \in DOMAIN s : s[j].count = s[i].count => i <= j
         IN <<s[top]>> \o sorted_by_count(SubSeq(s, 1, top - 1) \o SubSeq(s, top + 1, Len(s)))

TopIPs == 20

\* _analyze_ips that looks for the suspicious IPs among the listed top ones
_analyze_ips_suspicious_from_top(log_entries, detections) ==
    LET ip_stats == associate_detections(collect_ip_stats(log_entries, <<>>), detections)
        IsPrivate(st) == st.is_private
        IsPublic(st) == ~st.is_private
        IsSuspicious(st) == Len(st.detections) > 0
        by_count == sorted_by_count(ip_stats)
        top_ips == SubSeq(by_count, 1, Min(TopIPs, Len(by_count)))
    IN [total_unique_ips |-> Len(ip_stats),
        private_ips |-> Len(SelectSeq(ip_stats, IsPrivate)),
        public_ips |-> Len(SelectSeq(ip_stats, IsPublic)),
        top_ips |-> top_ips,
        suspicious_ips |-> SelectSeq(top_ips, IsSuspicious)]

\* LogAnalyzer._analyze_ips
_analyze_ips(log_entries, detections) ==
    LET ip_stats == associate_detections(collect_ip_stats(log_entries, <<>>), detections)
        IsPrivate(st) == st.is_private
        IsPublic(st) == ~st.is_private
        IsSuspicious(st) == Len(st.detections) > 0
        by_count == sorted_by_count(ip_stats)
    IN [total_unique_ips |-> Len(ip_stats),
        private_ips |-> Len(SelectSeq(ip_stats, IsPrivate)),
        public_ips |-> Len(SelectSeq(ip_stats, IsPublic)),
        top_ips |-> SubSeq(by_count, 1, Min(TopIPs, Len(by_count))),
        suspicious_ips |-> SelectSeq(ip_stats, IsSuspicious)]

-----------------------------------------------------------------------------
(* analyzer.py: risk score and summary *)

\* severity_weights without the CRITICAL key: .get falls back to 1
severity_weights_no_critical(severity) ==
    CASE severity = "LOW" -> 1
      [] severity = "MEDIUM" -> 3
      [] severity = "HIGH" -> 7
      [] severity = "CRITICAL" -> 1

severity_weights(severity) ==
    CASE severity = "LOW" -> 1
      [] severity = "MEDIUM" -> 3
      [] severity = "HIGH" -> 7
      [] severity = "CRITICAL" -> 15

PublicIPThreshold == 50
ScoreCap == 100
CriticalLevel == 80
HighLevel == 60
MediumLevel == 30

risk_level(normalized_score) ==
    IF normalized_score >= CriticalLevel THEN "critical"
    ELSE IF normalized_score >= HighLevel THEN "high"
    ELSE IF normalized_score >= MediumLevel THEN "medium"
    ELSE "low"

\* base_score before normalisation: the weighted confidences are added one
\* by one to the int 0, then the two IP factors
base_score_of(detections, ip_analysis) ==
    LET weighted == [i \in DOMAIN detections |->
                       float_mul(detections[i].confidence,
                                 severity_weights(detections[i].severity))]
        scored == float_sum(weighted, float(0))
        suspected == IF ip_analysis.suspicious_ips # <<>>
                     THEN float_add(scored, float(Len(ip_analysis.suspicious_ips) * 2))
                     ELSE scored
    IN IF ip_analysis.public_ips > PublicIPThreshold
       THEN float_add(suspected, float(5))
       ELSE suspected

risk_factors(ip_analysis) ==
    (IF ip_analysis.suspicious_ips # <<>>
     THEN <<[text |-> "suspicious IP(s) detected",
             count |-> Len(ip_analysis.suspicious_ips)]>>
     ELSE <<>>)
    \o (IF ip_analysis.public_ips > PublicIPThreshold
        THEN <<[text |-> "High number of external IPs", count |-> 0]>>
        ELSE <<>>)

\* int(base_score / max(1, len(detections)) * 10): int() truncates the
\* float the division and the multiplication leave
normalize(base_score, n) ==
    int(float_mul(float_div(base_score, Max(1, n)), 10))

\* the dict _calculate_risk_score returns for a normalized score
risk_score_of(normalized_score, ip_analysis) ==
    [score |-> normalized_score,
     level |-> risk_level(normalized_score),
     factors |-> risk_factors(ip_analysis)]

\* _calculate_risk_score without min(100, ...)
_calculate_risk_score_uncapped(detections, ip_analysis) ==
    IF detections = <<>>
    THEN [score |-> 0, level |-> "low", factors |-> <<>>]
    ELSE risk_score_of(normalize(base_score_of(detections, ip_analysis),
                                 Len(detections)),
                       ip_analysis)

\* _calculate_risk_score without the early return for no detections
_calculate_risk_score_no_guard(detections, ip_analysis) ==
    risk_score_of(Min(ScoreCap, normalize(base_score_of(detections, ip_analysis),
                                          Len(detections))),
                  ip_analysis)

\* LogAnalyzer._calculate_risk_score
_calculate_risk_score(detections, ip_analysis) ==
    IF detections = <<>>
    THEN [score |-> 0, level |-> "low", factors |-> <<>>]
    ELSE risk_score_of(Min(ScoreCap, normalize(base_score_of(detections, ip_analysis),
                                               Len(detections))),
                       ip_analysis)

\* the rule names of a detection list in order of first occurrence (the key
\* order of the by_rule dict)
RECURSIVE rule_order(_, _)
rule_order(detections, seen) ==
    IF detections = <<>> THEN seen
    ELSE IF Head(detections).rule_name \in Range(seen)
         THEN rule_order(Tail(detections), seen)
         ELSE rule_order(Tail(detections), Append(seen, Head(detections).rule_name))

TopThreats == 10

\* LogAnalyzer._generate_summary
_generate_summary(detections, log_entries, ip_analysis) ==
    LET summary == get_detection_summary(detections)
        names == rule_order(detections, <<>>)
        threats == [i \in DOMAIN names |->
                      [rule |-> names[i],
                       count |-> summary.by_rule[names[i]],
                       severity |-> SeverityValue(
                           detections[CHOOSE d \in DOMAIN detections :
                               /\ detections[d].rule_name = names[i]
                               /\ \A e \in DOMAIN detections :
                                    detections[e].rule_name = names[i] => d <= e].severity)]]
        ranked == sorted_by_count(threats)
    IN update(summary,
              [log_entries_parsed |-> Len(log_entries),
               unique_ips |-> ip_analysis.total_unique_ips,
               private_ips |-> ip_analysis.private_ips,
               public_ips |-> ip_analysis.public_ips,
               suspicious_ips |-> Len(ip_analysis.suspicious_ips),
               top_threats |-> SubSeq(ranked, 1, Min(TopThreats, Len(ranked))),
               risk_score |-> _calculate_risk_score(detections, ip_analysis)])

-----------------------------------------------------------------------------
(* analyzer.py: timeline *)

MinutesPerHour == 60

\* dt.replace(minute=0, second=0, microsecond=0), timestamps in minutes
hour_key(dt) == dt - (dt % MinutesPerHour)

\* a timestamp string is the minute it denotes; a negative one is a string
\* in none of the supported formats
Unparseable == -1

\* utils.normalize_timestamp
normalize_timestamp(timestamp_str) ==
    IF timestamp_str < 0 THEN None ELSE Some(timestamp_str)

\* _generate_timeline that puts a detection without a parseable timestamp
\* into the bucket of datetime.min
_generate_timeline_keeping_untimed(detections) ==
    LET dt(d) == IF d.timestamp = None THEN None ELSE normalize_timestamp(d.timestamp[1])
        key(d) == IF dt(d) = None THEN Unparseable ELSE hour_key(dt(d)[1])
        keys == {key(d) : d \in Range(detections)}
        bucket(k) ==
            LET InBucket(d) == key(d) = k
                ds == SelectSeq(detections, InBucket)
            IN [timestamp |-> k,
                total_detections |-> Len(ds),
                by_severity |->
                    [v \in {SeverityValue(d.severity) : d \in Range(ds)} |->
                       Cardinality({i \in DOMAIN ds : SeverityValue(ds[i].severity) = v})],
                by_category |->
                    [c \in {d.category : d \in Range(ds)} |->
                       Cardinality({i \in DOMAIN ds : ds[i].category = c})],
                events |-> [i \in DOMAIN ds |->
                              [rule |-> ds[i].rule_name,
                               severity |-> SeverityValue(ds[i].severity),
                               category |-> ds[i].category,
                               line |-> ds[i].line_number]]]
        ascending[ks \in SUBSET keys] ==
            IF ks = {} THEN <<>>
            ELSE LET k == CHOOSE x \in ks : \A y \in ks : x <= y
                 IN <<bucket(k)>> \o ascending[ks \ {k}]
    IN ascending[keys]

\* LogAnalyzer._generate_timeline: hourly buckets of the detections whose
\* timestamp parses, ascending by start time
_generate_timeline(detections) ==
    LET IsTimed(d) == d.timestamp # None /\ normalize_timestamp(d.timestamp[1]) # None
        timed == SelectSeq(detections, IsTimed)
        keys == {hour_key(normalize_timestamp(d.timestamp[1])[1]) : d \in Range(timed)}
        bucket(k) ==
            LET InBucket(d) == hour_key(normalize_timestamp(d.timestamp[1])[1]) = k
                ds == SelectSeq(timed, InBucket)
            IN [timestamp |-> k,
                total_detections |-> Len(ds),
                by_severity |->
                    [v \in {SeverityValue(d.severity) : d \in Range(ds)} |->
                       Cardinality({i \in DOMAIN ds : SeverityValue(ds[i].severity) = v})],
                by_category |->
                    [c \in {d.category : d \in Range(ds)} |->
                       Cardinality({i \in DOMAIN ds : ds[i].category = c})],
                events |-> [i \in DOMAIN ds |->
                              [rule |-> ds[i].rule_name,
                               severity |-> SeverityValue(ds[i].severity),
                               category |-> ds[i].category,
                               line |-> ds[i].line_number]]]
        ascending[ks \in SUBSET keys] ==
            IF ks = {} THEN <<>>
            ELSE LET k == CHOOSE x \in ks : \A y \in ks : x <= y
                 IN <<bucket(k)>> \o ascending[ks \ {k}]
    IN ascending[keys]

-----------------------------------------------------------------------------
(* analyzer.py: LogAnalyzer *)

DefaultChunkSize == 10000

\* RuleEngine state after SecurityRules.add_custom_rule(rule)
add_custom_rule(engine, rule) == [engine EXCEPT !.rules = Append(@, rule)]

RECURSIVE add_custom_rules(_, _)
add_custom_rules(engine, custom_rules) ==
    IF custom_rules = <<>> THEN engine
    ELSE add_custom_rules(add_custom_rule(engine, Head(custom_rules)), Tail(custom_rules))

\* LogAnalyzer.__init__
LogAnalyzer(custom_rules) ==
    LET added == add_custom_rules(RuleEngine, custom_rules)
    IN [parser_manager |-> LogParserManager,
        rule_engine |->
            IF custom_rules # <<>>
            THEN [added EXCEPT !.compiled_patterns = _compile_patterns(added.rules, @)]
            ELSE added,
        chunk_size |-> DefaultChunkSize]

AnalysisResult(file_path, total_lines, parsed_lines, detections, log_entries) ==
    LET ip_analysis == _analyze_ips(log_entries, detections)
    IN [file_path |-> file_path,
        total_lines |-> total_lines,
        parsed_lines |-> parsed_lines,
        detections |-> detections,
        summary |-> _generate_summary(detections, log_entries, ip_analysis),
        log_types |-> get_parser_stats(log_entries),
        ip_analysis |-> ip_analysis,
        timeline |-> _generate_timeline(detections)]

Returned(self, value) == [self |-> self, raised |-> FALSE, value |-> value]
Raised(self, error) == [self |-> self, raised |-> TRUE, value |-> error]

\* text.strip().split('\n') on a text given as its newline-separated lines:
\* leading and trailing blank lines go, and the empty text is one empty line
RECURSIVE lstrip_lines(_)
lstrip_lines(text) ==
    IF text # <<>> /\ Head(text).blank THEN lstrip_lines(Tail(text)) ELSE text

RECURSIVE rstrip_lines(_)
rstrip_lines(text) ==
    IF text # <<>> /\ text[Len(text)].blank
    THEN rstrip_lines(SubSeq(text, 1, Len(text) - 1))
    ELSE text

EmptyLine ==
    [blank |-> TRUE, can_parse |-> {}, parse_ok |-> {}, source_ip |-> None,
     timestamp |-> None, findall |-> <<>>]

strip_split(text) ==
    LET stripped == rstrip_lines(lstrip_lines(text))
    IN IF stripped = <<>> THEN <<EmptyLine>> ELSE stripped

\* the AnalysisResult analyze_text builds
text_result(self, text, source_name) ==
    LET lines == strip_split(text)
        log_entries == parse_lines(self.parser_manager, lines, 1)
        detections == analyze_log_chunk(self.rule_engine, lines, 1)
    IN AnalysisResult(source_name, Len(lines), Len(log_entries), detections, log_entries)

\* analyze_text that remembers what it reported: the rules that fired are
\* dropped from the compiled patterns and stay silent in later calls
analyze_text_suppressing(self, text, source_name) ==
    LET r == text_result(self, text, source_name)
        fired == {d.rule_name : d \in Range(r.detections)}
        kept == DOMAIN self.rule_engine.compiled_patterns \ fired
    IN Returned([self EXCEPT !.rule_engine.compiled_patterns = [n \in kept |-> @[n]]], r)

\* LogAnalyzer.analyze_text
analyze_text(self, text, source_name) ==
    Returned(self, text_result(self, text, source_name))

\* `if max_lines` on an Optional[int]
Truthy(max_lines) == max_lines # None /\ max_lines[1] # 0

\* LogAnalyzer._read_in_chunks over a file whose read of line fail_at raises:
\* the loop fetches the next line, then tests the cap, then appends.
\* lines_read lines were consumed so far; yields the chunks read, and whether
\* the iteration raised.
RECURSIVE _read_in_chunks(_, _, _, _, _, _)
_read_in_chunks(file, max_lines, chunk_size, lines_read, chunk, yielded) ==
    LET finish == [chunks |-> IF chunk # <<>> THEN Append(yielded, chunk) ELSE yielded,
                   raised |-> FALSE]
    IN IF file.fail_at = Some(lines_read + 1)
       THEN [chunks |-> yielded, raised |-> TRUE]
       ELSE IF lines_read >= Len(file.lines) THEN finish
       ELSE IF Truthy(max_lines) /\ lines_read >= max_lines[1] THEN finish
       ELSE LET grown == Append(chunk, file.lines[lines_read + 1])
            IN IF Len(grown) >= chunk_size
               THEN _read_in_chunks(file, max_lines, chunk_size, lines_read + 1,
                                    <<>>, Append(yielded, grown))
               ELSE _read_in_chunks(file, max_lines, chunk_size, lines_read + 1,
                                    grown, yielded)

\* the body of the `for chunk in ...` loop of analyze_file
RECURSIVE process_chunks(_, _, _)
process_chunks(self, chunks, acc) ==
    IF chunks = <<>> THEN acc
    ELSE LET chunk == Head(chunks)
             chunk_entries == parse_lines(self.parser_manager, chunk, acc.total_lines + 1)
             chunk_detections == analyze_log_chunk(self.rule_engine, chunk, 1)
         IN process_chunks(self, Tail(chunks),
                [log_entries |-> acc.log_entries \o chunk_entries,
                 detections |-> acc.detections \o chunk_detections,
                 total_lines |-> acc.total_lines + Len(chunk),
                 parsed_lines |-> acc.parsed_lines + Len(chunk_entries)])

NoFile == [path |-> "", lines |-> <<>>, fail_at |-> Some(0)]

\* open(file_path): the file of that name, or one whose open fails
lookup(files, file_path) ==
    LET at == {i \in DOMAIN files.dir : files.dir[i].path = file_path}
    IN IF at = {} THEN NoFile ELSE files.dir[CHOOSE i \in at : TRUE]

\* analyze_file that answers a failed read with the result of the chunks
\* processed before it
analyze_file_partial(self, files, file_path, max_lines) ==
    LET file == lookup(files, file_path)
        read == IF file.fail_at = Some(0)
                THEN [chunks |-> <<>>, raised |-> TRUE]
                ELSE _read_in_chunks(file, max_lines, self.chunk_size, 0, <<>>, <<>>)
        acc == process_chunks(self, read.chunks,
                              [log_entries |-> <<>>, detections |-> <<>>,
                               total_lines |-> 0, parsed_lines |-> 0])
    IN Returned(self,
                AnalysisResult(file_path, acc.total_lines, acc.parsed_lines,
                               acc.detections, acc.log_entries))

\* LogAnalyzer.analyze_file
analyze_file(self, files, file_path, max_lines) ==
    LET file == lookup(files, file_path)
        read == IF file.fail_at = Some(0)
                THEN [chunks |-> <<>>, raised |-> TRUE]
                ELSE _read_in_chunks(file, max_lines, self.chunk_size, 0, <<>>, <<>>)
        acc == process_chunks(self, read.chunks,
                              [log_entries |-> <<>>, detections |-> <<>>,
                               total_lines |-> 0, parsed_lines |-> 0])
    IN IF read.raised
       THEN Raised(self, [error |-> "Error analyzing file", file_path |-> file_path])
       ELSE Returned(self,
                     AnalysisResult(file_path, acc.total_lines, acc.parsed_lines,
                                    acc.detections, acc.log_entries))

-----------------------------------------------------------------------------
(* Input lines *)

Line(accepting, parsing, ip, ts, matched) ==
    [blank |-> FALSE, can_parse |-> accepting, parse_ok |-> parsing,
     source_ip |-> ip, timestamp |-> ts, findall |-> matched]

Match(n, len, ips) == [n |-> n, len |-> len, ips |-> ips]

AccessTime == 13 * 60 + 55

\* 192.168.1.1 - - [10/Oct/2023:13:55:36 +0000] "GET /index.html HTTP/1.1" 200 2326
BenignApache ==
    Line({"apache_access"}, {"apache_access", "generic"}, Some(PrivateIP),
         Some(AccessTime), <<>>)

\* {bad json} : JSONLogParser accepts it and json.loads fails
BadJson == Line({"json"}, {"generic"}, None, None, <<>>)

\* 8.8.8.8 ran /bin/sh : reverse_shell matches once, '/bin/sh'
ReverseShell ==
    Line({}, {"generic"}, Some(PublicIP), None,
         "reverse_shell" :> Match(1, 7, <<>>))

\* auth from 8.8.8.8 failed : failed_login_attempt matches once,
\* 'auth from 8.8.8.8 fail'
FailedAuth ==
    Line({}, {"generic"}, Some(PublicIP), None,
         "failed_login_attempt" :> Match(1, 22, <<PublicIP>>))

Corpus == {BenignApache, EmptyLine, BadJson, ReverseShell, FailedAuth}

AppLog == "app.log"

-----------------------------------------------------------------------------
(* The analyzer driven through its API *)

NoResult == [self |-> <<>>, raised |-> FALSE, value |-> <<>>]

Called(op, args) ==
    [op |-> op, args |-> args,
     again |-> call.op = op /\ call.args = args]

IsAnalysis(c) == c.op \in {"analyze_text", "analyze_file"}

Init ==
    /\ analyzer = LogAnalyzer(<<>>)
    /\ fs \in {[dir |-> <<[path |-> AppLog, lines |-> ls, fail_at |-> None]>>,
                written |-> None] : ls \in SeqsUpTo(Corpus, MaxLines)}
    /\ call = [op |-> "new", args |-> <<>>, again |-> FALSE]
    /\ result = NoResult

\* analyzer.chunk_size = n
SetChunkSize(n) ==
    /\ analyzer.chunk_size # n
    /\ analyzer' = [analyzer EXCEPT !.chunk_size = n]
    /\ call' = Called("chunk_size", [n |-> n])
    /\ result' = NoResult
    /\ UNCHANGED fs

AnalyzeText(text) ==
    LET r == analyze_text(analyzer, text, "text_input")
    IN /\ analyzer' = r.self
       /\ call' = Called("analyze_text", [text |-> text])
       /\ result' = [r EXCEPT !.self = <<>>]
       /\ UNCHANGED fs

AnalyzeFile(file_path, max_lines) ==
    LET r == analyze_file(analyzer, fs, file_path, max_lines)
    IN /\ analyzer' = r.self
       /\ call' = Called("analyze_file", [file_path |-> file_path, max_lines |-> max_lines])
       /\ result' = [r EXCEPT !.self = <<>>]
       /\ UNCHANGED fs

ChunkSizes == (1..MaxChunkSize) \cup {DefaultChunkSize}

MaxLinesArgs == {None} \cup {Some(m) : m \in 0..(MaxLines + 1)}

Next ==
    \/ \E n \in ChunkSizes : SetChunkSize(n)
    \/ \E f \in Range(fs.dir) : AnalyzeText(f.lines)
    \/ \E f \in Range(fs.dir), m \in MaxLinesArgs : AnalyzeFile(f.path, m)

Spec == Init /\ [][Next]_vars

-----------------------------------------------------------------------------
(* Properties of analyze_text and analyze_file *)

Analysed == IsAnalysis(call) /\ ~result.raised

\* the lines the last analysis call was given
GivenLines ==
    IF call.op = "analyze_text" THEN strip_split(call.args.text)
    ELSE lookup(fs, call.args.file_path).lines

\* the lines among the first k given lines for which the parser chain yields an entry
ParsedAmong(k) ==
    {i \in 1..k : parse_line(analyzer.parser_manager, GivenLines[i], i) # None}

\* C1: every result of analyze_file and analyze_text has parsed_lines <=
\* total_lines; the lines counted in total_lines are given lines, each line
\* the chain parses is counted once in parsed_lines and each line it drops
\* is counted in total_lines only.
C1_ParsedWithinTotal ==
    Analysed =>
        LET r == result.value
        IN /\ r.parsed_lines <= r.total_lines
           /\ r.total_lines <= Len(GivenLines)
           /\ r.parsed_lines = Cardinality(ParsedAmong(r.total_lines))

C1_Witness ==
    /\ Analysed
    /\ result.value.parsed_lines >= 1
    /\ result.value.parsed_lines < result.value.total_lines

C9_CriticalAtLeastMedium ==
    (/\ Analysed
     /\ result.value.detections # <<>>
     /\ \A d \in Range(result.value.detections) :
            d.severity = "CRITICAL" /\ d.confidence = literal(10))
    => result.value.summary.risk_score.level \in {"medium", "high", "critical"}

C9_Witness ==
    /\ Analysed
    /\ result.value.detections # <<>>
    /\ \A d \in Range(result.value.detections) :
           d.severity = "CRITICAL" /\ d.confidence = literal(10)
    /\ result.value.total_lines >= Len(result.value.detections) + 2
    /\ result.value.summary.risk_score.level \in {"medium", "high", "critical"}

\* C10: analyze_file with a non-negative max_lines on a file of N lines
\* reports total_lines = min(N, max_lines) and parses and rule-matches the
\* first min(N, max_lines) lines only, for every chunk size.
C10_MaxLinesCap ==
    (call.op = "analyze_file" /\ ~result.raised /\ call.args.max_lines # None)
    => LET r == result.value
           k == Min(Len(GivenLines), call.args.max_lines[1])
       IN /\ r.total_lines = k
          /\ r.parsed_lines = Cardinality(ParsedAmong(k))
          /\ Len(r.detections) =
                SeqSum([i \in 1..k |->
                          Len(analyze_line(analyzer.rule_engine, GivenLines[i], i, None))])

\* the same for the caps that are not zero
MaxLinesCapPositive ==
    (call.op = "analyze_file" /\ ~result.raised /\ Truthy(call.args.max_lines))
    => LET r == result.value
           k == Min(Len(GivenLines), call.args.max_lines[1])
       IN /\ r.total_lines = k
          /\ r.parsed_lines = Cardinality(ParsedAmong(k))
          /\ Len(r.detections) =
                SeqSum([i \in 1..k |->
                          Len(analyze_line(analyzer.rule_engine, GivenLines[i], i, None))])

-----------------------------------------------------------------------------
(* RuleEngine.analyze_line on every shape of match *)

\* a line on which exactly one built-in pattern matches, n times, the first
\* match len characters long
MatchLines ==
    {Line({}, {"generic"}, None, None, rule.pattern :> Match(n, len, <<>>)) :
        rule \in Range(_initialize_rules), n \in 1..MaxMatches, len \in 0..MaxMatchLen}

AnalyzeLine(line, line_number) ==
    /\ analyzer' = analyzer
    /\ call' = Called("analyze_line", [line |-> line, line_number |-> line_number])
    /\ result' = [self |-> <<>>, raised |-> FALSE,
                  value |-> analyze_line(analyzer.rule_engine, line, line_number, None)]
    /\ UNCHANGED fs

NoFiles == [dir |-> <<>>, written |-> None]

InitEngine ==
    /\ analyzer = LogAnalyzer(<<>>)
    /\ fs = NoFiles
    /\ call = [op |-> "new", args |-> <<>>, again |-> FALSE]
    /\ result = NoResult

NextEngine == \E line \in MatchLines : AnalyzeLine(line, 1)

SpecEngine == InitEngine /\ [][NextEngine]_vars

\* C2: every Detection analyze_line emits has 0.1 <= confidence <= 1.0
\* as floats, whatever the rule's severity, the number of matches and the
\* length of the first match.
C2_ConfidenceClamped ==
    call.op = "analyze_line" =>
        \A d \in Range(result.value) :
            float_le(literal(1), d.confidence) /\ float_le(d.confidence, literal(10))

\* a CRITICAL rule matching several times with a long first match: 0.7 + 0.3
\* + 0.1 is cut to 1.0
C2_Witness ==
    /\ call.op = "analyze_line"
    /\ \E d \in Range(result.value) :
          /\ d.severity = "CRITICAL"
          /\ d.matched_text.len >= 5
          /\ findall(d.rule_name, call.args.line).n > 1
          /\ d.confidence = literal(10)

-----------------------------------------------------------------------------
(* LogAnalyzer._calculate_risk_score on hand-built inputs *)

\* a Detection of the given severity and confidence
DetectionOf(severity, confidence) ==
    [rule_name |-> "rule", severity |-> severity,
     matched_text |-> [len |-> 0, ips |-> <<>>], line_number |-> 1,
     timestamp |-> None, category |-> "category", confidence |-> confidence]

\* the least and the greatest confidence a Detection may carry, and the
\* 0.7 + 0.2 the engine gives a HIGH rule that matched once
Confidences == {literal(1), float_add(literal(7), literal(2)), literal(10)}

DetectionLists ==
    SeqsUpTo({DetectionOf(sv, c) : sv \in Severity, c \in Confidences}, MaxDetections)

SuspectIPs == <<PublicIP, OtherPublicIP, "9.9.9.9", "4.4.4.4">>

\* an ip_analysis with s suspicious IPs among p public ones
IPAnalysisOf(s, p) ==
    LET stat(i) == [ip |-> SuspectIPs[i], count |-> i, first_seen |-> None,
                    last_seen |-> None, detections |-> <<DetectionOf("LOW", literal(1))>>,
                    is_private |-> FALSE]
    IN [total_unique_ips |-> p, private_ips |-> 0, public_ips |-> p,
        top_ips |-> <<>>, suspicious_ips |-> [i \in 1..s |-> stat(i)]]

PublicCounts == {MaxSuspicious, PublicIPThreshold, PublicIPThreshold + 1}

\* the inputs: an IP is suspicious only through a detection
InitRisk ==
    /\ analyzer = LogAnalyzer(<<>>)
    /\ fs = NoFiles
    /\ \E ds \in DetectionLists, p \in PublicCounts,
          s \in 0..MaxSuspicious :
          /\ ds = <<>> => s = 0
          /\ call = [op |-> "_calculate_risk_score",
                     args |-> [detections |-> ds, ip_analysis |-> IPAnalysisOf(s, p)],
                     again |-> FALSE]
    /\ result = NoResult

CalculateRiskScore ==
    /\ result = NoResult
    /\ call.op = "_calculate_risk_score"
    /\ result' = [self |-> <<>>, raised |-> FALSE,
                  value |-> _calculate_risk_score(call.args.detections,
                                                  call.args.ip_analysis)]
    /\ UNCHANGED <<analyzer, fs, call>>

NextRisk == CalculateRiskScore

SpecRisk == InitRisk /\ [][NextRisk]_vars

RiskScored == call.op = "_calculate_risk_score" /\ result # NoResult

\* C4: the score _calculate_risk_score returns lies in 0..100 for every
\* detection list and every ip_analysis.
C4_ScoreInRange ==
    RiskScored => result.value.score \in 0..ScoreCap

\* the cap applies: the quotient is above 100
C4_Witness ==
    /\ RiskScored
    /\ call.args.detections # <<>>
    /\ normalize(base_score_of(call.args.detections, call.args.ip_analysis),
                 Len(call.args.detections)) > ScoreCap
    /\ result.value.score = ScoreCap

\* C5: with no detections the risk score is score 0, level low and no
\* factors, whatever the number of IPs, public ones above 50 included.
C5_NoDetectionsNoRisk ==
    (RiskScored /\ call.args.detections = <<>>)
    => result.value = [score |-> 0, level |-> "low", factors |-> <<>>]

C5_Witness ==
    /\ RiskScored
    /\ call.args.detections = <<>>
    /\ call.args.ip_analysis.public_ips > PublicIPThreshold
    /\ result.value.score = 0


-----------------------------------------------------------------------------
(* cli.py and web_app.py: filtering a fresh result by minimum severity *)

\* str.lower() on the option strings the front ends receive
lower(s) ==
    CASE s = "LOW" -> "low"
      [] s = "MEDIUM" -> "medium"
      [] s = "HIGH" -> "high"
      [] s = "CRITICAL" -> "critical"
      [] s = "ALL" -> "all"
      [] s = "JSON" -> "json"
      [] s = "CSV" -> "csv"
      [] OTHER -> s

\* Severity(value): the member with that value
SeverityOf(value) == CHOOSE s \in Severity : SeverityValue(s) = value

\* list.index(x)
index(list, x) ==
    CHOOSE i \in DOMAIN list : list[i] = x /\ \A j \in DOMAIN list : list[j] = x => i <= j

\* `if x` on an Optional[str]
Given(option) == option # None /\ option[1] # ""

severity_order == <<"LOW", "MEDIUM", "HIGH", "CRITICAL">>

\* _filter_result keeping only the detections strictly above the level asked for
_filter_result_strict(res, severity, category) ==
    LET AboveMin(d) ==
            index(severity_order, d.severity) >
                index(severity_order, SeverityOf(lower(severity[1])))
        InCategory(d) == d.category = category[1]
        by_severity == IF Given(severity) THEN SelectSeq(res.detections, AboveMin)
                       ELSE res.detections
        by_category == IF Given(category) THEN SelectSeq(by_severity, InCategory)
                       ELSE by_severity
    IN IF ~Given(severity) /\ ~Given(category) THEN res
       ELSE [res EXCEPT !.detections = by_category]

\* _filter_result that brings the summary's total in line with the kept detections
_filter_result_recounting(res, severity, category) ==
    LET AtLeastMin(d) ==
            index(severity_order, d.severity) >=
                index(severity_order, SeverityOf(lower(severity[1])))
        InCategory(d) == d.category = category[1]
        by_severity == IF Given(severity) THEN SelectSeq(res.detections, AtLeastMin)
                       ELSE res.detections
        by_category == IF Given(category) THEN SelectSeq(by_severity, InCategory)
                       ELSE by_severity
    IN IF ~Given(severity) /\ ~Given(category) THEN res
       ELSE [res EXCEPT !.detections = by_category,
                        !.summary = [@ EXCEPT !.total = Len(by_category)]]

\* cli._filter_result: only result.detections is reassigned (res is the result passed in)
_filter_result(res, severity, category) ==
    LET AtLeastMin(d) ==
            index(severity_order, d.severity) >=
                index(severity_order, SeverityOf(lower(severity[1])))
        InCategory(d) == d.category = category[1]
        by_severity == IF Given(severity) THEN SelectSeq(res.detections, AtLeastMin)
                       ELSE res.detections
        by_category == IF Given(category) THEN SelectSeq(by_severity, InCategory)
                       ELSE by_severity
    IN IF ~Given(severity) /\ ~Given(category) THEN res
       ELSE [res EXCEPT !.detections = by_category]

severity_levels == <<"low", "medium", "high", "critical">>

\* web_app.upload_file, the filter between analyze_file and format_analysis_for_web
upload_filter(res, severity_filter) ==
    IF Given(severity_filter) /\ severity_filter[1] # "all"
    THEN LET min_level_index == index(severity_levels, lower(severity_filter[1]))
             Kept(detection) ==
                 index(severity_levels, SeverityValue(detection.severity)) >= min_level_index
         IN [res EXCEPT !.detections = SelectSeq(res.detections, Kept)]
    ELSE res

\* GET /a HTTP/1.1 404 12 : http_error_spike matches once, 'HTTP/1.1 404'
HttpError ==
    Line({}, {"generic"}, None, None, "http_error_spike" :> Match(1, 12, <<>>))

\* sudo rm : privileged_escalation matches once, 'sudo'
Sudo ==
    Line({}, {"generic"}, None, None, "privileged_escalation" :> Match(1, 4, <<>>))

\* one line per severity, and one without threats
SeverityCorpus == {HttpError, FailedAuth, Sudo, ReverseShell, BenignApache}

IsFresh == call.op = "analyze_file" /\ ~result.raised

InitFilter ==
    /\ analyzer = LogAnalyzer(<<>>)
    /\ fs \in {[dir |-> <<[path |-> AppLog, lines |-> ls, fail_at |-> None]>>,
                written |-> None] : ls \in SeqsUpTo(SeverityCorpus, MaxLines)}
    /\ call = [op |-> "new", args |-> <<>>, again |-> FALSE]
    /\ result = NoResult

\* logsentry analyze --severity S --category C, after analyze_file
FilterResult(severity, category) ==
    /\ IsFresh
    /\ call' = Called("_filter_result", [severity |-> severity, category |-> category])
    /\ result' = [result EXCEPT !.value = _filter_result(@, severity, category)]
    /\ UNCHANGED <<analyzer, fs>>

\* POST /upload with severity_filter, after analyze_file
UploadFilter(severity_filter) ==
    /\ IsFresh
    /\ call' = Called("upload_filter", [severity |-> severity_filter])
    /\ result' = [result EXCEPT !.value = upload_filter(@, severity_filter)]
    /\ UNCHANGED <<analyzer, fs>>

\* --severity is a case-insensitive click.Choice
SeverityOptions == {None} \cup {Some(v) : v \in {"low", "medium", "high", "critical", "HIGH"}}

CategoryOptions == {None, Some("malware")}

\* the form field is free text; the page offers the four levels and 'all'
SeverityFilters == SeverityOptions \cup {Some("all"), Some("")}

NextFilter ==
    \/ \E f \in Range(fs.dir) : AnalyzeFile(f.path, None)
    \/ \E s \in SeverityOptions, c \in CategoryOptions : FilterResult(s, c)
    \/ \E s \in SeverityFilters : UploadFilter(s)

SpecFilter == InitFilter /\ [][NextFilter]_vars

\* the order LOW < MEDIUM < HIGH < CRITICAL
rank(severity) ==
    CASE severity = "LOW" -> 1
      [] severity = "MEDIUM" -> 2
      [] severity = "HIGH" -> 3
      [] severity = "CRITICAL" -> 4

\* the level a minimum-severity option names
NamedLevel(option) ==
    CHOOSE s \in Severity : SeverityValue(s) = lower(option[1])

\* the detections of rank at least that of S, in their order
AtLeast(detections, S) ==
    LET Keeps(d) == rank(d.severity) >= rank(S)
    IN SelectSeq(detections, Keeps)

IsSeverityFilter(c) ==
    \/ c.op = "_filter_result" /\ c.args.severity # None /\ c.args.category = None
    \/ c.op = "upload_filter" /\ c.args.severity \notin {None, Some("all"), Some("")}

\* C3: a filter step by minimum severity S, in the CLI and in the web upload
\* alike, leaves exactly the detections d of the analysed result with
\* rank(d.severity) >= rank(S), in their original order
C3_SeverityFilter ==
    [][IsSeverityFilter(call') =>
         result'.value.detections =
             AtLeast(result.value.detections, NamedLevel(call'.args.severity))]_vars

\* a filter by 'high' that kept some detections and dropped others (the
\* summary still counts the detections analysed)
C3_Witness ==
    /\ call.op \in {"_filter_result", "upload_filter"}
    /\ IsSeverityFilter(call)
    /\ call.args.severity = Some("high")
    /\ Len(result.value.detections) > 0
    /\ Len(result.value.detections) < result.value.summary.total
    /\ \E d \in Range(result.value.detections) : d.severity = "CRITICAL"

IsFilter(c) == c.op \in {"_filter_result", "upload_filter"}

\* the filter call names no level and no category
NothingAsked(c) ==
    \/ c.op = "_filter_result" /\ ~Given(c.args.severity) /\ ~Given(c.args.category)
    \/ c.op = "upload_filter" /\ (~Given(c.args.severity) \/ c.args.severity = Some("all"))

\* C30: the severity/category filter changes only the detection list of the
\* result it is given: file_path, total_lines, parsed_lines, summary (with
\* its by_severity counts and risk_score), ip_analysis and timeline are left
\* as they were, not recomputed from the kept detections, and with no
\* severity and no category the result is returned untouched.
C30_FilterFrame ==
    [][IsFilter(call') =>
         /\ result'.value.file_path = result.value.file_path
         /\ result'.value.total_lines = result.value.total_lines
         /\ result'.value.parsed_lines = result.value.parsed_lines
         /\ result'.value.summary = result.value.summary
         /\ result'.value.log_types = result.value.log_types
         /\ result'.value.ip_analysis = result.value.ip_analysis
         /\ result'.value.timeline = result.value.timeline
         /\ NothingAsked(call') => result'.value = result.value]_vars

\* a filter by category that dropped a detection: the summary still counts
\* it, scores it and lists its severity, and its IP is still suspicious
C30_Witness ==
    /\ call.op = "_filter_result"
    /\ Given(call.args.category)
    /\ Len(result.value.detections) > 0
    /\ Len(result.value.detections) < result.value.summary.total
    /\ \E v \in DOMAIN result.value.summary.by_severity :
          \A d \in Range(result.value.detections) : SeverityValue(d.severity) # v
    /\ result.value.summary.risk_score.score > 0
    /\ result.value.ip_analysis.suspicious_ips # <<>>

-----------------------------------------------------------------------------
(* analyzer.py: export_results *)

\* datetime.isoformat(): a string, no longer a datetime
isoformat(dt) == [iso8601 |-> dt]

\* convert_datetime on an Optional[datetime]; None stays None
convert_datetime(obj) == IF obj = None THEN None ELSE Some(isoformat(obj[1]))

\* str(member) of the Enum Severity, which json.dump(default=str) falls back to
str(severity) ==
    CASE severity = "LOW" -> "Severity.LOW"
      [] severity = "MEDIUM" -> "Severity.MEDIUM"
      [] severity = "HIGH" -> "Severity.HIGH"
      [] severity = "CRITICAL" -> "Severity.CRITICAL"

\* a Detection as the JSON object written for it: asdict keeps the Severity
\* member, convert_datetime renders the timestamp, json.dump stringifies
\* the member with default=str
detection_json(d) ==
    [d EXCEPT !.severity = str(@), !.timestamp = convert_datetime(@)]

ip_json(stat) ==
    [stat EXCEPT !.first_seen = convert_datetime(@),
                 !.last_seen = convert_datetime(@),
                 !.detections = [i \in DOMAIN @ |-> detection_json(@[i])]]

\* json.dump(convert_datetime(asdict(result)), f, default=str): the JSON text
json_dump(res) ==
    [json |->
       [res EXCEPT
          !.detections = [i \in DOMAIN @ |-> detection_json(@[i])],
          !.ip_analysis.top_ips = [i \in DOMAIN @ |-> ip_json(@[i])],
          !.ip_analysis.suspicious_ips = [i \in DOMAIN @ |-> ip_json(@[i])],
          !.timeline = [i \in DOMAIN @ |-> [@[i] EXCEPT !.timestamp = isoformat(@)]]]]

\* json.load(f) of a text json_dump wrote
json_load(text) == text.json

\* LogAnalyzer._export_json: the file written
_export_json(res, output_file) ==
    [path |-> output_file, text |-> json_dump(res)]

CsvTextWidth == 100

\* LogAnalyzer._export_csv: a header and one row per detection, the
\* confidence with two decimals (hundredths)
_export_csv(res, output_file) ==
    [path |-> output_file,
     text |->
       [csv |->
          <<"header">> \o
          [i \in DOMAIN res.detections |->
             LET detection == res.detections[i]
             IN [line_number |-> detection.line_number,
                 timestamp |-> IF detection.timestamp = None THEN ""
                               ELSE isoformat(detection.timestamp[1]),
                 severity |-> SeverityValue(detection.severity),
                 rule_name |-> detection.rule_name,
                 category |-> detection.category,
                 matched_text |-> [detection.matched_text EXCEPT
                                     !.len = Min(CsvTextWidth, @)],
                 confidence |-> format_2f(detection.confidence)]]]]

\* export_results opening the output file before it looks at the format:
\* an unknown format leaves an empty file behind
export_results_opening_first(self, files, res, output_file, format_type) ==
    IF lower(format_type) = "json"
    THEN [files |-> [files EXCEPT !.written = Some(_export_json(res, output_file))],
          raised |-> FALSE, value |-> None]
    ELSE IF lower(format_type) = "csv"
    THEN [files |-> [files EXCEPT !.written = Some(_export_csv(res, output_file))],
          raised |-> FALSE, value |-> None]
    ELSE [files |-> [files EXCEPT !.written = Some([path |-> output_file, text |-> <<>>])],
          raised |-> TRUE,
          value |-> [error |-> "Unsupported format", format_type |-> format_type]]

\* LogAnalyzer.export_results: the file system afterwards, and whether the
\* call raised ValueError (before any file is opened)
export_results(self, files, res, output_file, format_type) ==
    IF lower(format_type) = "json"
    THEN [files |-> [files EXCEPT !.written = Some(_export_json(res, output_file))],
          raised |-> FALSE, value |-> None]
    ELSE IF lower(format_type) = "csv"
    THEN [files |-> [files EXCEPT !.written = Some(_export_csv(res, output_file))],
          raised |-> FALSE, value |-> None]
    ELSE [files |-> files, raised |-> TRUE,
          value |-> [error |-> "Unsupported format", format_type |-> format_type]]

ExportResults(output_file, format_type) ==
    LET r == export_results(analyzer, fs, result.value, output_file, format_type)
    IN /\ IsFresh
       /\ fs' = r.files
       /\ call' = Called("export_results",
                         [result |-> result.value, output_file |-> output_file,
                          format_type |-> format_type])
       /\ result' = [self |-> <<>>, raised |-> r.raised, value |-> r.value]
       /\ UNCHANGED analyzer

Formats == {"json", "JSON", "csv", "xml"}

OutputFiles == {"report.out"}

NextExport ==
    \/ \E f \in Range(fs.dir) : AnalyzeFile(f.path, None)
    \/ \E o \in OutputFiles, t \in Formats : ExportResults(o, t)

SpecExport == InitFilter /\ [][NextExport]_vars

ExportedJson ==
    /\ call.op = "export_results"
    /\ ~result.raised
    /\ lower(call.args.format_type) = "json"

\* C7: after a JSON export, parsing the file back gives, for every detection
\* of the exported result in order, its rule_name, category and confidence,
\* and its severity as the value string ('high')
C7_JsonRoundTrip ==
    ExportedJson =>
        LET loaded == json_load(fs.written[1].text).detections
            detections == call.args.result.detections
        IN /\ Len(loaded) = Len(detections)
           /\ \A i \in DOMAIN detections :
                /\ loaded[i].rule_name = detections[i].rule_name
                /\ loaded[i].severity = SeverityValue(detections[i].severity)
                /\ loaded[i].category = detections[i].category
                /\ loaded[i].confidence = detections[i].confidence

\* what the round trip does give: the same fields with the severity as the
\* member's str() ('Severity.HIGH'), and first_seen/last_seen of the IP
\* records as ISO-8601 strings
JsonRoundTripAsWritten ==
    ExportedJson =>
        LET loaded == json_load(fs.written[1].text)
            exported == call.args.result
        IN /\ Len(loaded.detections) = Len(exported.detections)
           /\ \A i \in DOMAIN exported.detections :
                /\ loaded.detections[i].rule_name = exported.detections[i].rule_name
                /\ loaded.detections[i].severity = str(exported.detections[i].severity)
                /\ loaded.detections[i].category = exported.detections[i].category
                /\ loaded.detections[i].confidence = exported.detections[i].confidence
           /\ \A i \in DOMAIN exported.ip_analysis.top_ips :
                exported.ip_analysis.top_ips[i].first_seen # None =>
                    loaded.ip_analysis.top_ips[i].first_seen =
                        Some(isoformat(exported.ip_analysis.top_ips[i].first_seen[1]))


-----------------------------------------------------------------------------
(* analyzer.py: analyze_directory *)

LogNames == {"a.log", "c.log", "d.log", AppLog}

\* fnmatch of a file name against the patterns used here
fnmatch(name, pattern) ==
    \/ pattern = "*"
    \/ pattern = "*.log" /\ name \in LogNames

\* glob.glob(os.path.join(directory, pattern)): the matching paths, in the
\* order the directory lists them
glob(files, pattern) ==
    LET Matches(file) == fnmatch(file.path, pattern)
        matching == SelectSeq(files.dir, Matches)
    IN [i \in DOMAIN matching |-> matching[i].path]

\* analyze_directory without the try/except around analyze_file: the first
\* failure propagates and ends the scan
analyze_directory_aborting(self, files, pattern) ==
    LET log_files == glob(files, pattern)
        attempt(i) == analyze_file(self, files, log_files[i], None)
        failed == {i \in DOMAIN log_files : attempt(i).raised}
    IN IF failed = {}
       THEN Returned(self, [i \in DOMAIN log_files |-> attempt(i).value])
       ELSE Raised(self, attempt(CHOOSE i \in failed : \A j \in failed : i <= j).value)

\* LogAnalyzer.analyze_directory
analyze_directory(self, files, pattern) ==
    LET log_files == glob(files, pattern)
        attempt(i) == analyze_file(self, files, log_files[i], None)
    IN Returned(self,
                Flatten([i \in DOMAIN log_files |->
                           IF attempt(i).raised THEN <<>> ELSE <<attempt(i).value>>]))

\* the names a directory listing gives, in listing order
DirNames == <<"a.log", "b.txt", "c.log", "d.log">>

DirContents == {<<FailedAuth>>, <<ReverseShell, BenignApache>>}

\* readable, unreadable (open fails), and failing at the read of line 2
Failures == {None, Some(0), Some(2)}

InitDir ==
    /\ analyzer = LogAnalyzer(<<>>)
    /\ \E n \in 1..MaxFiles :
         \E contents \in [1..n -> DirContents], failing \in [1..n -> Failures] :
            fs = [dir |-> [i \in 1..n |->
                             [path |-> DirNames[i], lines |-> contents[i],
                              fail_at |-> failing[i]]],
                  written |-> None]
    /\ call = [op |-> "new", args |-> <<>>, again |-> FALSE]
    /\ result = NoResult

AnalyzeDirectory(pattern) ==
    LET r == analyze_directory(analyzer, fs, pattern)
    IN /\ analyzer' = r.self
       /\ call' = Called("analyze_directory", [pattern |-> pattern])
       /\ result' = [r EXCEPT !.self = <<>>]
       /\ UNCHANGED fs

Patterns == {"*.log", "*"}

NextDir ==
    \/ \E p \in Patterns : AnalyzeDirectory(p)
    \/ \E f \in Range(fs.dir) : AnalyzeFile(f.path, None)

SpecDir == InitDir /\ [][NextDir]_vars

\* the files of the directory the pattern matches, in listing order
Visited(pattern) ==
    LET Matches(file) == fnmatch(file.path, pattern)
    IN SelectSeq(fs.dir, Matches)

\* the file analysed on its own, in a directory that holds nothing else
Alone(file) ==
    analyze_file(analyzer, [dir |-> <<file>>, written |-> None], file.path, None)

Succeeding(visited) ==
    LET Succeeds(file) == ~Alone(file).raised
    IN SelectSeq(visited, Succeeds)

\* C8: analyze_directory returns normally with one AnalysisResult per
\* matching file that can be analysed (n - k of them), in visiting order,
\* each equal to the result of analysing that file alone
C8_DirectoryScanCompletes ==
    call.op = "analyze_directory" =>
        LET visited == Visited(call.args.pattern)
            succeeding == Succeeding(visited)
            k == Cardinality({i \in DOMAIN visited : Alone(visited[i]).raised})
        IN /\ ~result.raised
           /\ Len(result.value) = Len(visited) - k
           /\ \A i \in DOMAIN result.value :
                result.value[i] = Alone(succeeding[i]).value

\* a scan of three files whose first fails and whose other two succeed
C8_Witness ==
    /\ call.op = "analyze_directory"
    /\ call.args.pattern = "*"
    /\ Len(fs.dir) = 3
    /\ fs.dir[1].fail_at # None
    /\ fs.dir[2].fail_at = None
    /\ fs.dir[3].fail_at = None
    /\ Len(result.value) = 2


-----------------------------------------------------------------------------
(* analyzer.py: LogAnalyzer(custom_rules=...) *)

\* DetectionRule(name=..., pattern=..., severity=..., category="test")
CustomRule(name, pattern, severity) ==
    [DetectionRule(name, severity, "test") EXCEPT !.pattern = pattern]

\* a new name and the name of a built-in rule
CustomNames == {"test_custom_rule", "reverse_shell"}

\* two compilable patterns and one re.compile rejects
CustomPatterns == {"CUSTOM_THREAT_PATTERN", "SECOND_PATTERN"} \cup BadPatterns

CustomRules ==
    {CustomRule(name, pattern, "HIGH") : name \in CustomNames, pattern \in CustomPatterns}

\* This log contains CUSTOM_THREAT_PATTERN in the message
CustomThreat ==
    Line({}, {"generic"}, None, None, "CUSTOM_THREAT_PATTERN" :> Match(1, 21, <<>>))

\* This log contains SECOND_PATTERN in the message
SecondThreat ==
    Line({}, {"generic"}, None, None, "SECOND_PATTERN" :> Match(1, 14, <<>>))

CustomCorpus == {CustomThreat, SecondThreat, ReverseShell, BenignApache}

InitCustom ==
    /\ analyzer \in {LogAnalyzer(custom_rules) :
                        custom_rules \in SeqsUpTo(CustomRules, MaxCustomRules)}
    /\ fs \in {[dir |-> <<[path |-> AppLog, lines |-> <<line>>, fail_at |-> None]>>,
                written |-> None] : line \in CustomCorpus}
    /\ call = [op |-> "new", args |-> <<>>, again |-> FALSE]
    /\ result = NoResult

NextCustom ==
    \/ \E f \in Range(fs.dir) : AnalyzeText(f.lines)
    \/ \E f \in Range(fs.dir) : AnalyzeFile(f.path, None)

SpecCustom == InitCustom /\ [][NextCustom]_vars

\* the rules the analyzer was constructed with, after the built-in ones
CustomOf(self) ==
    SubSeq(self.rule_engine.rules, Len(_initialize_rules) + 1, Len(self.rule_engine.rules))

\* the line's text matches the rule's own pattern
PatternMatches(rule, line) ==
    rule.pattern \in DOMAIN line.findall /\ line.findall[rule.pattern].n > 0

\* the result reports the rule on line i
Reported(rule, i) ==
    \E d \in Range(result.value.detections) :
        d.rule_name = rule.name /\ d.line_number = i

ActiveOn(rules) ==
    \A rule \in Range(rules) :
        rule.pattern \notin BadPatterns =>
            \A i \in DOMAIN GivenLines :
                PatternMatches(rule, GivenLines[i]) => Reported(rule, i)

\* C11: after the first analysis by an analyzer built with custom rules,
\* every line that the pattern of a compilable custom rule matches has a
\* Detection with that rule's name, and every line a built-in rule's
\* pattern matches still has that built-in rule's Detection
C11_CustomRulesActive ==
    Analysed => ActiveOn(CustomOf(analyzer)) /\ ActiveOn(_initialize_rules)

NamesUnique(rules) ==
    \A i, j \in DOMAIN rules : rules[i].name = rules[j].name => i = j

\* the same, for custom rules whose names differ from each other and from
\* the built-in names
CustomRulesActiveWhenNamesUnique ==
    (Analysed /\ NamesUnique(analyzer.rule_engine.rules)) =>
        ActiveOn(CustomOf(analyzer)) /\ ActiveOn(_initialize_rules)


-----------------------------------------------------------------------------
(* analyzer.py: merge_analysis_results *)

\* a Counter after `counter[key] += 1` for every key of the list, in order
RECURSIVE Counter(_, _)
Counter(keys, counter) ==
    IF keys = <<>> THEN counter
    ELSE LET key == Head(keys)
             old == IF key \in DOMAIN counter THEN counter[key] ELSE 0
         IN Counter(Tail(keys), update(counter, key :> old + 1))

\* sorted(events, key=timestamp): stable, ascending
RECURSIVE sorted_by_timestamp(_)
sorted_by_timestamp(s) ==
    IF s = <<>> THEN <<>>
    ELSE LET low == CHOOSE i \in DOMAIN s :
                       /\ \A j \in DOMAIN s : s[i].timestamp <= s[j].timestamp
                       /\ \A j \in DOMAIN s : s[j].timestamp = s[i].timestamp => i <= j
         IN <<s[low]>> \o sorted_by_timestamp(SubSeq(s, 1, low - 1) \o SubSeq(s, low + 1, Len(s)))

\* merge_analysis_results counting a rule once per file it fired in
merge_analysis_results_per_file(results) ==
    LET fired(r) == rule_order(r.detections, <<>>)
    IN IF results = <<>> THEN <<>>
       ELSE [total_files |-> Len(results),
             total_lines |-> SeqSum([i \in DOMAIN results |-> results[i].total_lines]),
             total_detections |->
                 SeqSum([i \in DOMAIN results |-> Len(results[i].detections)]),
             files |-> [i \in DOMAIN results |-> results[i].file_path],
             combined_summary |-> <<>>,
             top_threats_across_files |->
                 Counter(Flatten([i \in DOMAIN results |-> fired(results[i])]), <<>>),
             timeline |-> <<>>]

\* merge_analysis_results (total_analysis_time, a sum of wall-clock
\* durations, is left out); the empty dict is the empty function
merge_analysis_results(results) ==
    LET all_detections == Flatten([i \in DOMAIN results |-> results[i].detections])
        all_timeline_events == Flatten([i \in DOMAIN results |-> results[i].timeline])
    IN IF results = <<>> THEN <<>>
       ELSE [total_files |-> Len(results),
             total_lines |-> SeqSum([i \in DOMAIN results |-> results[i].total_lines]),
             total_detections |->
                 SeqSum([i \in DOMAIN results |-> Len(results[i].detections)]),
             files |-> [i \in DOMAIN results |-> results[i].file_path],
             combined_summary |->
                 IF all_detections # <<>> THEN get_detection_summary(all_detections)
                 ELSE <<>>,
             top_threats_across_files |->
                 Counter([i \in DOMAIN all_detections |-> all_detections[i].rule_name],
                         <<>>),
             timeline |-> sorted_by_timestamp(all_timeline_events)]

\* no detection, one detection, and a rule that fires on two lines
MergeContents == {<<BenignApache>>, <<FailedAuth>>, <<ReverseShell, FailedAuth, ReverseShell>>}

InitMerge ==
    /\ analyzer = LogAnalyzer(<<>>)
    /\ \E n \in 1..MaxFiles :
         \E contents \in [1..n -> MergeContents], failing \in [1..n -> {None, Some(0)}] :
            fs = [dir |-> [i \in 1..n |->
                             [path |-> DirNames[i], lines |-> contents[i],
                              fail_at |-> failing[i]]],
                  written |-> None]
    /\ call = [op |-> "new", args |-> <<>>, again |-> FALSE]
    /\ result = NoResult

\* logsentry scan: merge_analysis_results(results) after analyze_directory
MergeAnalysisResults ==
    /\ call.op = "analyze_directory"
    /\ call' = Called("merge_analysis_results", [results |-> result.value])
    /\ result' = [self |-> <<>>, raised |-> FALSE,
                  value |-> merge_analysis_results(result.value)]
    /\ UNCHANGED <<analyzer, fs>>

NextMerge ==
    \/ \E p \in Patterns : AnalyzeDirectory(p)
    \/ MergeAnalysisResults

SpecMerge == InitMerge /\ [][NextMerge]_vars

\* the sum of a counter's counts
RECURSIVE CounterTotal(_)
CounterTotal(counter) ==
    IF DOMAIN counter = {} THEN 0
    ELSE LET key == CHOOSE k \in DOMAIN counter : TRUE
         IN counter[key] + CounterTotal([k \in DOMAIN counter \ {key} |-> counter[k]])

RECURSIVE LinesOf(_)
LinesOf(results) ==
    IF results = <<>> THEN 0 ELSE Head(results).total_lines + LinesOf(Tail(results))

RECURSIVE DetectionsOf(_)
DetectionsOf(results) ==
    IF results = <<>> THEN 0 ELSE Len(Head(results).detections) + DetectionsOf(Tail(results))

Merged == call.op = "merge_analysis_results"

\* C12: merging a non-empty list of results gives total_files = their
\* number, total_lines and total_detections = the sums over the results,
\* files = their file_path in input order, and a rule counter whose counts
\* add up to total_detections; merging the empty list gives the empty map
C12_MergeTotals ==
    Merged =>
        LET results == call.args.results
            merged == result.value
        IN IF results = <<>> THEN merged = <<>>
           ELSE /\ merged.total_files = Len(results)
                /\ merged.total_lines = LinesOf(results)
                /\ merged.total_detections = DetectionsOf(results)
                /\ Len(merged.files) = Len(results)
                /\ \A i \in DOMAIN results : merged.files[i] = results[i].file_path
                /\ CounterTotal(merged.top_threats_across_files) = merged.total_detections

\* a merge of two results or more in which one rule was counted twice in
\* one file
C12_Witness ==
    /\ Merged
    /\ Len(call.args.results) >= 2
    /\ result.value.total_detections >= 4
    /\ \E r \in Range(call.args.results) : Len(r.detections) = 0
    /\ \E k \in DOMAIN result.value.top_threats_across_files :
          result.value.top_threats_across_files[k] >= 2

\* the detections of all the results, in input order
AllDetections(results) == Flatten([i \in DOMAIN results |-> results[i].detections])

\* C27: for every non-empty list of results, combined_summary is the
\* detection summary of the union of all the results' detections, so its
\* total equals total_detections; when none of the results has a detection
\* it is the zeroed summary (total = 0).
C27_CombinedSummary ==
    (Merged /\ call.args.results # <<>>) =>
        LET expected == get_detection_summary(AllDetections(call.args.results))
            combined_summary == result.value.combined_summary
        IN /\ DOMAIN combined_summary = DOMAIN expected
           /\ combined_summary = expected
           /\ combined_summary.total = result.value.total_detections

\* combined_summary is the detection summary of all the detections when
\* there is one, and the empty dict, without a total, when there is none
CombinedSummaryWhenDetected ==
    (Merged /\ call.args.results # <<>>) =>
        LET all_detections == AllDetections(call.args.results)
            combined_summary == result.value.combined_summary
        IN IF all_detections = <<>> THEN DOMAIN combined_summary = {}
           ELSE /\ combined_summary = get_detection_summary(all_detections)
                /\ combined_summary.total = result.value.total_detections

-----------------------------------------------------------------------------
(* export_results with an unknown format *)

KnownFormat(format_type) == lower(format_type) \in {"json", "csv"}

\* C13: an export_results call whose format is neither 'json' nor 'csv',
\* compared without regard to case, raises and leaves the file system as
\* it was: no output file is created and one written earlier is not touched
C13_UnknownFormatNoIO ==
    [][(call'.op = "export_results" /\ ~KnownFormat(call'.args.format_type)) =>
          /\ result'.raised
          /\ fs' = fs
          /\ call'.args.result = result.value]_vars

\* an export with an unknown format after an earlier export wrote the file
C13_Witness ==
    /\ call.op = "export_results"
    /\ ~KnownFormat(call.args.format_type)
    /\ result.raised
    /\ fs.written # None
    /\ fs.written[1].path = call.args.output_file


-----------------------------------------------------------------------------
(* parsers.py: the parser chain with registered parsers *)

CustomParsers == {"custom_a", "custom_b"}

\* the parsers whose can_parse and parse the lines below tell apart
Probed == {"firewall", "json", "custom_a"}

\* lines by which of the probed parsers accept them and which parsers
\* (the fallback included) produce an entry from them, and the empty line
ParseLines ==
    {Line(accepting, parsing, None, None, <<>>) :
        accepting \in SUBSET Probed, parsing \in SUBSET (Probed \cup {"generic"})}
    \cup {EmptyLine}

InitParse ==
    /\ analyzer = LogAnalyzer(<<>>)
    /\ fs = NoFiles
    /\ call = [op |-> "new", args |-> <<>>, again |-> FALSE]
    /\ result = NoResult

\* analyzer.parser_manager.add_parser(parser)
AddParser(parser) ==
    /\ Len(analyzer.parser_manager.parsers) <
           Len(LogParserManager.parsers) + MaxCustomParsers
    /\ analyzer' = [analyzer EXCEPT !.parser_manager = add_parser(@, parser)]
    /\ call' = Called("add_parser", [parser |-> parser])
    /\ result' = NoResult
    /\ UNCHANGED fs

\* analyzer.parser_manager.parse_line(line, line_number)
ParseLine(line, line_number) ==
    /\ call' = Called("parse_line", [line |-> line, line_number |-> line_number])
    /\ result' = [self |-> <<>>, raised |-> FALSE,
                  value |-> parse_line(analyzer.parser_manager, line, line_number)]
    /\ UNCHANGED <<analyzer, fs>>

NextParse ==
    \/ \E parser \in CustomParsers : AddParser(parser)
    \/ \E line \in ParseLines : ParseLine(line, 1)

SpecParse == InitParse /\ [][NextParse]_vars

\* the parsers of the list that accept the line, by position
Accepting(line) ==
    {i \in DOMAIN analyzer.parser_manager.parsers :
        \/ analyzer.parser_manager.parsers[i] = "generic"
        \/ analyzer.parser_manager.parsers[i] \in line.can_parse}

\* C14: parse_line returns what the first parser of the list that accepts
\* the line makes of it: an entry whose log_type is that parser's name, or
\* no entry when that parser's parse fails, whatever later parsers would
\* have produced
C14_FirstAcceptingParserCommits ==
    call.op = "parse_line" =>
        LET line == call.args.line
            parsers == analyzer.parser_manager.parsers
        IN \A first \in Accepting(line) :
              (\A j \in Accepting(line) : first <= j) =>
                 IF parsers[first] \in line.parse_ok
                 THEN /\ result.value # None
                      /\ result.value[1].log_type = parsers[first]
                 ELSE result.value = None

\* a non-empty line dropped by the parser that accepted it although a
\* later accepting parser and the fallback would both have parsed it
C14_Witness ==
    /\ call.op = "parse_line"
    /\ result.value = None
    /\ ~call.args.line.blank
    /\ "json" \in call.args.line.can_parse
    /\ "json" \notin call.args.line.parse_ok
    /\ "custom_a" \in call.args.line.can_parse
    /\ {"custom_a", "generic"} \subseteq call.args.line.parse_ok
    /\ "custom_a" \in Range(analyzer.parser_manager.parsers)

BuiltInFirst(parsers) ==
    SubSeq(parsers, 1, Len(LogParserManager.parsers) - 1) =
        SubSeq(LogParserManager.parsers, 1, Len(LogParserManager.parsers) - 1)

\* C15: the fallback parser is always the last of the list and the five
\* format parsers always lead it in their original order; every add_parser
\* puts the new parser right before the fallback, after the parsers
\* registered earlier
C15_FallbackStaysLast ==
    /\ [](/\ analyzer.parser_manager.parsers[Len(analyzer.parser_manager.parsers)]
                = "generic"
          /\ BuiltInFirst(analyzer.parser_manager.parsers))
    /\ [][call'.op = "add_parser" =>
            LET before == analyzer.parser_manager.parsers
                after == analyzer'.parser_manager.parsers
            IN /\ Len(after) = Len(before) + 1
               /\ SubSeq(after, 1, Len(before) - 1) = SubSeq(before, 1, Len(before) - 1)
               /\ after[Len(before)] = call'.args.parser
               /\ after[Len(after)] = "generic"]_vars

\* two different parsers registered one after the other
C15_Witness ==
    /\ call.op = "add_parser"
    /\ Len(analyzer.parser_manager.parsers) = Len(LogParserManager.parsers) + 2
    /\ analyzer.parser_manager.parsers[Len(LogParserManager.parsers)] = "custom_b"
    /\ analyzer.parser_manager.parsers[Len(LogParserManager.parsers) + 1] = "custom_a"


-----------------------------------------------------------------------------
(* analyze_file on files whose reading fails *)

MissingLog == "missing.log"

InitIO ==
    /\ analyzer = LogAnalyzer(<<>>)
    /\ fs \in {[dir |-> <<[path |-> AppLog, lines |-> ls, fail_at |-> failing]>>,
                written |-> None] :
                  ls \in SeqsUpTo({ReverseShell, BenignApache}, MaxLines),
                  failing \in {None} \cup {Some(k) : k \in 0..(MaxLines + 1)}}
    /\ call = [op |-> "new", args |-> <<>>, again |-> FALSE]
    /\ result = NoResult

NextIO ==
    \/ \E n \in ChunkSizes : SetChunkSize(n)
    \/ \E path \in {AppLog, MissingLog}, m \in MaxLinesArgs : AnalyzeFile(path, m)

SpecIO == InitIO /\ [][NextIO]_vars

\* the read that fails is one analyze_file gets to: the open, or the fetch
\* of a line up to one past the end and one past the cap
FailureReached ==
    LET file == lookup(fs, call.args.file_path)
        max_lines == call.args.max_lines
    IN /\ file.fail_at # None
       /\ \/ file.fail_at[1] = 0
          \/ /\ file.fail_at[1] <= Len(file.lines) + 1
             /\ max_lines # None /\ max_lines[1] # 0 => file.fail_at[1] <= max_lines[1] + 1

\* C16: an analyze_file whose reading fails, at the open or at a later
\* line, raises one error that names the file path and carries nothing
\* else: no AnalysisResult, no entries or detections of earlier chunks
C16_ReadFailureOneError ==
    (call.op = "analyze_file" /\ FailureReached) =>
        /\ result.raised
        /\ DOMAIN result.value = {"error", "file_path"}
        /\ result.value.file_path = call.args.file_path

\* a read that fails at the second line, after the first chunk, holding a
\* line with a threat, was processed
C16_Witness ==
    /\ call.op = "analyze_file"
    /\ call.args.file_path = AppLog
    /\ result.raised
    /\ analyzer.chunk_size = 1
    /\ fs.dir[1].fail_at = Some(2)
    /\ Len(fs.dir[1].lines) >= 2
    /\ fs.dir[1].lines[1] = ReverseShell


-----------------------------------------------------------------------------
(* analyze_text: the lines counted *)

\* the number of newline-separated lines of a text; the empty text splits
\* into one empty line
NewlineSeparated(text) == IF text = <<>> THEN 1 ELSE Len(text)

\* C17: analyze_text reports total_lines = the number of newline-separated
\* lines of the text handed to it
C17_TextTotalLines ==
    call.op = "analyze_text" =>
        result.value.total_lines = NewlineSeparated(call.args.text)

\* the count is right for a text that neither begins nor ends with a
\* blank line
TextTotalLinesWhenNotPadded ==
    (/\ call.op = "analyze_text"
     /\ call.args.text # <<>>
     /\ ~Head(call.args.text).blank
     /\ ~call.args.text[Len(call.args.text)].blank) =>
        result.value.total_lines = NewlineSeparated(call.args.text)


-----------------------------------------------------------------------------
(* analyze_file: line numbers of the detections *)

FileAnalysed == call.op = "analyze_file" /\ ~result.raised

\* C18: every Detection of an analyze_file result carries the 1-based
\* position in the file of a line its rule matches, and line numbers never
\* decrease along the detection list, whatever the chunk size
C18_FileLineNumbers ==
    FileAnalysed =>
        LET detections == result.value.detections
            lines == GivenLines
        IN \A i \in DOMAIN detections :
              /\ detections[i].line_number \in 1..result.value.total_lines
              /\ findall(analyzer.rule_engine.compiled_patterns[detections[i].rule_name],
                         lines[detections[i].line_number]).n > 0
              /\ i > 1 => detections[i - 1].line_number <= detections[i].line_number

\* the detections are those of the lines read, numbered from 1, when the
\* lines read fit into one chunk
FileLineNumbersWithinOneChunk ==
    (FileAnalysed /\ result.value.total_lines <= analyzer.chunk_size) =>
        result.value.detections =
            analyze_log_chunk(analyzer.rule_engine,
                              SubSeq(GivenLines, 1, result.value.total_lines), 1)


-----------------------------------------------------------------------------
(* RuleEngine.analyze_line on lines several patterns match *)

\* no match, one match, and the most matches tried
MatchCounts == {0, 1, MaxMatches}

\* lines by how often a built-in and the two custom patterns occur in them
MultiMatchLines ==
    {Line({}, {"generic"}, None, None,
          [pattern \in {p \in DOMAIN counts : counts[p] > 0} |->
              Match(counts[pattern], 7, <<>>)]) :
        counts \in [{"reverse_shell", "CUSTOM_THREAT_PATTERN", "SECOND_PATTERN"}
                       -> MatchCounts]}

InitLine ==
    /\ analyzer \in {LogAnalyzer(custom_rules) :
                        custom_rules \in SeqsUpTo(CustomRules, MaxCustomRules)}
    /\ fs = NoFiles
    /\ call = [op |-> "new", args |-> <<>>, again |-> FALSE]
    /\ result = NoResult

NextLine == \E line \in MultiMatchLines : AnalyzeLine(line, 1)

SpecLine == InitLine /\ [][NextLine]_vars

\* the catalog positions of the rules whose compiled pattern matches the line
Firing(line) ==
    {i \in DOMAIN analyzer.rule_engine.rules :
        LET name == analyzer.rule_engine.rules[i].name
        IN /\ name \in DOMAIN analyzer.rule_engine.compiled_patterns
           /\ analyzer.rule_engine.compiled_patterns[name] \in DOMAIN line.findall
           /\ line.findall[analyzer.rule_engine.compiled_patterns[name]].n >= 1}

\* the k-th smallest element of a set of positions
Kth(positions, k) ==
    CHOOSE i \in positions : Cardinality({j \in positions : j < i}) = k - 1

\* C19: analyze_line returns one Detection for each catalog rule whose
\* compiled pattern matches the line, in catalog order, and nothing else;
\* so never more detections than rules, however often a pattern occurs
C19_OneDetectionPerRule ==
    call.op = "analyze_line" =>
        LET firing == Firing(call.args.line)
            rules == analyzer.rule_engine.rules
        IN /\ Len(result.value) = Cardinality(firing)
           /\ Len(result.value) <= Len(rules)
           /\ \A k \in DOMAIN result.value :
                /\ result.value[k].rule_name = rules[Kth(firing, k)].name
                /\ result.value[k].severity = rules[Kth(firing, k)].severity

\* a line on which a built-in and a custom pattern both occur several
\* times, reported once each
C19_Witness ==
    /\ call.op = "analyze_line"
    /\ Len(result.value) = 2
    /\ result.value[1].rule_name = "reverse_shell"
    /\ result.value[2].rule_name = "test_custom_rule"
    /\ \A p \in DOMAIN call.args.line.findall : call.args.line.findall[p].n >= 2
    /\ Cardinality(DOMAIN call.args.line.findall) >= 2


-----------------------------------------------------------------------------
(* The confidence formula *)

\* bonus LOW 0.0, MEDIUM 0.1, HIGH 0.2, CRITICAL 0.3, in tenths
bonus(severity) ==
    CASE severity = "LOW" -> 0
      [] severity = "MEDIUM" -> 1
      [] severity = "HIGH" -> 2
      [] severity = "CRITICAL" -> 3

clamp(low, high, x) == IF x < low THEN low ELSE IF x > high THEN high ELSE x

\* C20: in tenths, the confidence of a Detection is
\* clamp(1, 10, 7 + bonus(severity) + (1 if the rule matched more than once)
\* - (1 if the first match's text is shorter than 5 characters)), for every
\* severity, match count and first-match length
C20_ConfidenceFormula ==
    call.op = "analyze_line" =>
        \A d \in Range(result.value) :
            LET matches == call.args.line.findall[d.rule_name]
            IN tenths(d.confidence) =
                  clamp(1, 10,
                        7 + bonus(d.severity)
                          + (IF matches.n > 1 THEN 1 ELSE 0)
                          - (IF matches.len < 5 THEN 1 ELSE 0))

\* a HIGH rule that matched once with a first match of fewer than 5
\* characters: 0.7 + 0.2 - 0.1
C20_Witness ==
    /\ call.op = "analyze_line"
    /\ \E d \in Range(result.value) :
          /\ d.severity = "HIGH"
          /\ call.args.line.findall[d.rule_name].n = 1
          /\ d.matched_text.len < 5
          /\ tenths(d.confidence) = 8

-----------------------------------------------------------------------------
(* The risk score formula *)

\* S * 10 for the S of the formula, the confidences taken as the tenths they
\* stand for
tenfold_sum(detections, ip_analysis) ==
    SeqSum([i \in DOMAIN detections |->
              severity_weights(detections[i].severity) * tenths(detections[i].confidence)])
    + 2 * Len(ip_analysis.suspicious_ips) * 10
    + (IF ip_analysis.public_ips > PublicIPThreshold THEN 5 * 10 ELSE 0)

\* clamp(0, 100, floor(S / n * 10))
formula_score(detections, ip_analysis) ==
    clamp(0, ScoreCap, tenfold_sum(detections, ip_analysis) \div Len(detections))

RiskFormulaUpToTruncation ==
    (/\ call.op = "_calculate_risk_score"
     /\ result # NoResult
     /\ call.args.detections # <<>>)
    => LET detections == call.args.detections
           exact == tenfold_sum(detections, call.args.ip_analysis)
           claimed == formula_score(detections, call.args.ip_analysis)
       IN /\ result.value.score \in {claimed - 1, claimed}
          /\ exact % Len(detections) # 0 => result.value.score = claimed
          /\ call.args.ip_analysis.public_ips = PublicIPThreshold
                => result.value.factors =
                      risk_factors([call.args.ip_analysis EXCEPT !.public_ips = 0])

-----------------------------------------------------------------------------
(* rules.py: mutating the catalog of a live engine *)

\* RuleEngine state after SecurityRules.remove_rule(rule_name)
remove_rule(engine, rule_name) ==
    [engine EXCEPT !.rules = SelectSeq(@, LAMBDA rule : rule.name # rule_name)]

\* a new name or a built-in one, a compilable pattern or one re.compile rejects
CatalogRules ==
    {CustomRule(name, pattern, "HIGH") :
        name \in CustomNames, pattern \in {"CUSTOM_THREAT_PATTERN"} \cup BadPatterns}

\* lines by which of the built-in reverse_shell pattern and the custom
\* pattern occur in them
CatalogLines ==
    {Line({}, {"generic"}, None, None, [pattern \in occurring |-> Match(1, 7, <<>>)]) :
        occurring \in SUBSET {"reverse_shell", "CUSTOM_THREAT_PATTERN"}}

InitCatalog ==
    /\ analyzer \in {LogAnalyzer(custom_rules) :
                        custom_rules \in SeqsUpTo(CatalogRules, MaxCustomRules)}
    /\ fs = NoFiles
    /\ call = [op |-> "new", args |-> <<>>, again |-> FALSE]
    /\ result = NoResult

\* analyzer.rule_engine.rules.add_custom_rule(rule)
AddCustomRule(rule) ==
    /\ Len(analyzer.rule_engine.rules) < Len(_initialize_rules) + MaxCustomRules
    /\ analyzer' = [analyzer EXCEPT !.rule_engine = add_custom_rule(@, rule)]
    /\ call' = Called("add_custom_rule", [rule |-> rule])
    /\ result' = NoResult
    /\ UNCHANGED fs

\* analyzer.rule_engine.rules.remove_rule(rule_name)
RemoveRule(rule_name) ==
    /\ analyzer' = [analyzer EXCEPT !.rule_engine = remove_rule(@, rule_name)]
    /\ call' = Called("remove_rule", [rule_name |-> rule_name])
    /\ result' = NoResult
    /\ UNCHANGED fs

\* analyzer.rule_engine._compile_patterns()
CompilePatterns ==
    /\ analyzer' = [analyzer EXCEPT !.rule_engine.compiled_patterns =
                        _compile_patterns(analyzer.rule_engine.rules, @)]
    /\ call' = Called("_compile_patterns", <<>>)
    /\ result' = NoResult
    /\ UNCHANGED fs

NextCatalog ==
    \/ \E rule \in CatalogRules : AddCustomRule(rule)
    \/ \E rule_name \in CustomNames : RemoveRule(rule_name)
    \/ CompilePatterns
    \/ \E line \in CatalogLines : AnalyzeLine(line, 1)

SpecCatalog == InitCatalog /\ [][NextCatalog]_vars

\* the last analyze_line returned a Detection made from the rule
Yields(rule) ==
    \E d \in Range(result.value) :
        /\ d.rule_name = rule.name
        /\ d.severity = rule.severity
        /\ d.category = rule.category

\* the cache holds the rule's own pattern under the rule's name
Compiled(rule) ==
    /\ rule.name \in DOMAIN analyzer.rule_engine.compiled_patterns
    /\ analyzer.rule_engine.compiled_patterns[rule.name] = rule.pattern

\* C22: after any sequence of add_custom_rule, remove_rule and
\* recompilation, analyze_line raises nothing, a catalog rule whose pattern
\* does not compile yields no Detection, and every rule that was compiled
\* yields one on a line its pattern matches
C22_UncompilableInert ==
    call.op = "analyze_line" =>
        /\ ~result.raised
        /\ \A rule \in Range(analyzer.rule_engine.rules) :
              /\ rule.pattern \in BadPatterns => ~Yields(rule)
              /\ (Compiled(rule) /\ PatternMatches(rule, call.args.line))
                    => Yields(rule)

\* the same, for an uncompilable rule whose name was never compiled before:
\* the failure leaves no cache entry, and the rule is skipped
UncompilableInertWhenNameFresh ==
    call.op = "analyze_line" =>
        /\ ~result.raised
        /\ \A rule \in Range(analyzer.rule_engine.rules) :
              /\ (/\ rule.pattern \in BadPatterns
                  /\ rule.name \notin DOMAIN analyzer.rule_engine.compiled_patterns)
                    => ~Yields(rule)
              /\ (Compiled(rule) /\ PatternMatches(rule, call.args.line))
                    => Yields(rule)

\* C23: at an analyze_line after any sequence of catalog mutations the
\* cache holds a pattern for exactly the compilable rules of the catalog,
\* a rule of the catalog yields a Detection on a line its pattern matches
\* and no Detection carries the name of a rule that is not in the catalog
C23_MutationRecompiles ==
    call.op = "analyze_line" =>
        LET engine == analyzer.rule_engine
            compilable == {rule \in Range(engine.rules) : rule.pattern \notin BadPatterns}
        IN /\ DOMAIN engine.compiled_patterns = {rule.name : rule \in compilable}
           /\ \A rule \in compilable :
                 PatternMatches(rule, call.args.line) => Yields(rule)
           /\ \A d \in Range(result.value) :
                 \E rule \in Range(engine.rules) : d.rule_name = rule.name

\* what the code keeps of it: a removed rule yields nothing, and right
\* after _compile_patterns every compilable rule that is the last of its
\* name in the catalog has its own pattern in the cache
RemovedSilentCompiledCurrent ==
    LET rules == analyzer.rule_engine.rules
    IN /\ call.op = "analyze_line" =>
             \A d \in Range(result.value) :
                 \E rule \in Range(rules) : d.rule_name = rule.name
       /\ call.op = "_compile_patterns" =>
             \A i \in DOMAIN rules :
                 (/\ rules[i].pattern \notin BadPatterns
                  /\ \A j \in DOMAIN rules : rules[j].name = rules[i].name => j <= i)
                    => Compiled(rules[i])

\* C24: no two rules of a catalog share a name, so a line yields at most
\* one Detection per rule name
C24_NamesUniqueInCatalog ==
    /\ NamesUnique(analyzer.rule_engine.rules)
    /\ call.op = "analyze_line" =>
          \A i, j \in DOMAIN result.value :
              result.value[i].rule_name = result.value[j].rule_name => i = j

\* what the code keeps of it: one Detection per name on the lines analysed
\* while the names of the catalog differ
OnePerNameWhenNamesUnique ==
    (call.op = "analyze_line" /\ NamesUnique(analyzer.rule_engine.rules)) =>
        \A i, j \in DOMAIN result.value :
            result.value[i].rule_name = result.value[j].rule_name => i = j

-----------------------------------------------------------------------------
(* LogAnalyzer._analyze_ips on hand-built entries and detections *)

\* a LogEntry with the given source_ip
EntryFrom(source_ip) ==
    [timestamp |-> None, source_ip |-> source_ip, log_type |-> "generic",
     line_number |-> 1]

\* the Detection of a line whose matched_text holds the given IPv4 substrings
DetectionNaming(ips, line_number) ==
    [rule_name |-> "rule", severity |-> "HIGH",
     matched_text |-> [len |-> 8 * Len(ips), ips |-> ips], line_number |-> line_number,
     timestamp |-> None, category |-> "category", confidence |-> literal(9)]

\* entries without a usable source IP, one entry of each of the first n
\* hosts, one more of every busy host and a third one of the busiest
Traffic(n, busy, busiest) ==
    <<EntryFrom(None), EntryFrom(Some(InvalidIP))>>
      \o [k \in 1..n |-> EntryFrom(Some(HostIPs[k]))]
      \o Flatten([k \in 1..n |-> IF k \in busy THEN <<EntryFrom(Some(HostIPs[k]))>>
                                 ELSE <<>>])
      \o Flatten([k \in 1..n |-> IF k = busiest THEN <<EntryFrom(Some(HostIPs[k]))>>
                                 ELSE <<>>])

HostCounts == {0, 1, 2, TopIPs, TopIPs + 1, TopIPs + 2}

\* what a matched_text may name: nothing, no address, an address no entry
\* came from, the first host, the last host once and twice
Mentions(n) ==
    {<<>>, <<InvalidIP>>, <<PublicIP>>}
      \cup (IF n = 0 THEN {}
            ELSE {<<HostIPs[1]>>, <<HostIPs[n]>>, <<HostIPs[n], HostIPs[n]>>})

InitIPs ==
    /\ analyzer = LogAnalyzer(<<>>)
    /\ fs = NoFiles
    /\ \E n \in HostCounts, busy \in SUBSET {1, TopIPs + 1, TopIPs + 2} :
          \E busiest \in busy \cup {0}, mentions \in SeqsUpTo(Mentions(n), MaxDetections) :
             /\ busy \subseteq 1..n
             /\ call = [op |-> "_analyze_ips",
                        args |-> [log_entries |-> Traffic(n, busy, busiest),
                                  detections |-> [d \in DOMAIN mentions |->
                                                    DetectionNaming(mentions[d], d)]],
                        again |-> FALSE]
    /\ result = NoResult

AnalyzeIPs ==
    /\ result = NoResult
    /\ call.op = "_analyze_ips"
    /\ result' = [self |-> <<>>, raised |-> FALSE,
                  value |-> _analyze_ips(call.args.log_entries, call.args.detections)]
    /\ UNCHANGED <<analyzer, fs, call>>

NextIPs == AnalyzeIPs

SpecIPs == InitIPs /\ [][NextIPs]_vars

IPsAnalyzed == call.op = "_analyze_ips" /\ result # NoResult

\* the valid source IPs of the entries
SourceIPs(log_entries) ==
    {e.source_ip[1] : e \in {x \in Range(log_entries) :
                               x.source_ip # None /\ is_valid_ip(x.source_ip[1])}}

\* the number of entries that came from ip
EntriesFrom(log_entries, ip) ==
    Cardinality({i \in DOMAIN log_entries : log_entries[i].source_ip = Some(ip)})

\* some detection's matched_text names ip
Named(detections, ip) ==
    \E d \in DOMAIN detections :
       ip \in Range(extract_ips_from_text(detections[d].matched_text))

\* C25: in ip_analysis, top_ips holds at most 20 IP records ordered by
\* count non-increasing, and no omitted IP has a count greater than a listed
\* one; suspicious_ips holds exactly the IPs, of any rank, that have at least
\* one associated detection, each of them the valid source IP of an entry.
C25_TopAndSuspiciousIPs ==
    IPsAnalyzed =>
      LET log_entries == call.args.log_entries
          top_ips == result.value.top_ips
          suspicious_ips == result.value.suspicious_ips
          seen == SourceIPs(log_entries)
          listed == {top_ips[i].ip : i \in DOMAIN top_ips}
      IN /\ Len(top_ips) <= TopIPs
         /\ \A i \in DOMAIN top_ips :
               /\ top_ips[i].ip \in seen
               /\ top_ips[i].count = EntriesFrom(log_entries, top_ips[i].ip)
               /\ i < Len(top_ips) => top_ips[i].count >= top_ips[i + 1].count
         /\ \A ip \in seen \ listed : \A i \in DOMAIN top_ips :
               EntriesFrom(log_entries, ip) <= top_ips[i].count
         /\ {suspicious_ips[i].ip : i \in DOMAIN suspicious_ips}
               = {ip \in seen : Named(call.args.detections, ip)}
         /\ \A i, j \in DOMAIN suspicious_ips :
               suspicious_ips[i].ip = suspicious_ips[j].ip => i = j

\* more than 20 hosts, a busier one among the omitted ones would be listed,
\* and a detection names a host that is not listed
C25_Witness ==
    /\ IPsAnalyzed
    /\ Cardinality(SourceIPs(call.args.log_entries)) > TopIPs
    /\ Len(result.value.top_ips) = TopIPs
    /\ result.value.top_ips[1].count > result.value.top_ips[TopIPs].count
    /\ \E i \in DOMAIN result.value.suspicious_ips :
          \A j \in DOMAIN result.value.top_ips :
             result.value.top_ips[j].ip # result.value.suspicious_ips[i].ip

\* the IP records of an ip_analysis
IPRecords(ip_analysis) == Range(ip_analysis.top_ips) \cup Range(ip_analysis.suspicious_ips)

\* the positions at which x occurs in the sequence
Occurrences(xs, x) == {i \in DOMAIN xs : xs[i] = x}

\* C29: in ip_analysis a Detection is associated with a given IP at most
\* once: no IP record's detections list contains the same Detection twice,
\* also when the detection's matched_text mentions that IP several times.
C29_AssociatedOnce ==
    IPsAnalyzed =>
        \A st \in IPRecords(result.value) : \A d \in Range(st.detections) :
            Cardinality(Occurrences(st.detections, d)) = 1

\* a record lists a Detection once for every mention of the record's IP in
\* the detection's matched_text
AssociatedOncePerMention ==
    IPsAnalyzed =>
        \A st \in IPRecords(result.value) : \A d \in Range(call.args.detections) :
            Cardinality(Occurrences(st.detections, d))
              = Cardinality(Occurrences(extract_ips_from_text(d.matched_text), st.ip))

-----------------------------------------------------------------------------
(* LogAnalyzer._generate_timeline on hand-built detections *)

\* minutes of three different hours, two of them in the same hour, and one
\* on the hour
Minutes == {5, 59, 60, 125}

\* a Detection with the given timestamp, found on the given line
DetectionAt(severity, category, timestamp, line_number) ==
    [rule_name |-> "rule", severity |-> severity,
     matched_text |-> [len |-> 8, ips |-> <<>>], line_number |-> line_number,
     timestamp |-> timestamp, category |-> category, confidence |-> literal(9)]

TimedDetections ==
    { [d \in DOMAIN stamps |->
         DetectionAt(stamps[d].severity, stamps[d].category, stamps[d].timestamp, d)] :
      stamps \in SeqsUpTo({st \in [severity : {"LOW", "HIGH"},
                                   category : {"malware", "web_attack"},
                                   timestamp : {None, Some(Unparseable)}
                                                 \cup {Some(t) : t \in Minutes}] :
                             st.severity = "LOW" => st.category = "malware"},
                          MaxDetections + 1) }

InitTimeline ==
    /\ analyzer = LogAnalyzer(<<>>)
    /\ fs = NoFiles
    /\ \E detections \in TimedDetections :
          call = [op |-> "_generate_timeline", args |-> [detections |-> detections],
                  again |-> FALSE]
    /\ result = NoResult

GenerateTimeline ==
    /\ result = NoResult
    /\ call.op = "_generate_timeline"
    /\ result' = [self |-> <<>>, raised |-> FALSE,
                  value |-> _generate_timeline(call.args.detections)]
    /\ UNCHANGED <<analyzer, fs, call>>

NextTimeline == GenerateTimeline

SpecTimeline == InitTimeline /\ [][NextTimeline]_vars

TimelineGenerated == call.op = "_generate_timeline" /\ result # NoResult

\* the timestamp parses: it is a string of a supported format
Parseable(d) == d.timestamp # None /\ d.timestamp[1] >= 0

\* the buckets and events in which the timeline counts the detection of a line
CountedIn(timeline, line_number) ==
    {be \in {<<b, e>> : b \in DOMAIN timeline, e \in 1..MaxDetections + 1} :
       /\ be[2] \in DOMAIN timeline[be[1]].events
       /\ timeline[be[1]].events[be[2]].line = line_number}

-----------------------------------------------------------------------------
(* analyze_text and analyze_file on lines that carry a timestamp *)

AttackTime == 14 * 60 + 5

\* 8.8.8.8 - - [10/Oct/2023:14:05:36 +0000] "GET /cgi-bin/x?cmd=/bin/sh HTTP/1.1" 200 2326
\* : the access-log parser extracts the timestamp, reverse_shell matches once
StampedShell ==
    Line({"apache_access"}, {"apache_access", "generic"}, Some(PublicIP),
         Some(AttackTime), "reverse_shell" :> Match(1, 7, <<>>))

StampedCorpus == {BenignApache, StampedShell, FailedAuth}

InitStamped ==
    /\ analyzer = LogAnalyzer(<<>>)
    /\ fs \in {[dir |-> <<[path |-> AppLog, lines |-> ls, fail_at |-> None]>>,
                written |-> None] : ls \in SeqsUpTo(StampedCorpus, MaxLines)}
    /\ call = [op |-> "new", args |-> <<>>, again |-> FALSE]
    /\ result = NoResult

NextStamped ==
    \/ \E n \in ChunkSizes : SetChunkSize(n)
    \/ \E f \in Range(fs.dir) : AnalyzeText(f.lines)
    \/ \E f \in Range(fs.dir), m \in {None, Some(MaxLines)} : AnalyzeFile(f.path, m)

SpecStamped == InitStamped /\ [][NextStamped]_vars

====
